---- MODULE Spec2Model ----
(***************************************************************************)
(* Grid navigation planners (A* and orthogonal Jump Point Search) and the  *)
(* GotoLocation executor of NU-IDEAS-Lab/Sentinel.                         *)
(*                                                                         *)
(* Coordinates are integers in units of 0.001 world units, so STEP_SIZE    *)
(* 0.25 is 250 and a PositionKey (two decimals) is a multiple of 10.       *)
(* Node tables are grid aligned: every raw position is a multiple of       *)
(* STEP_SIZE, as returned by the environment for gridSize = 0.25.          *)
(***************************************************************************)
EXTENDS Integers, Sequences, FiniteSets, TLC

\* The planners' inputs and working state, and the position in the run.
VARIABLES nodes, adjacency, start_key, start_yaw, goal_key, jps, astar, pc

\* One navigation request: the executor class, the request's target, the
\* environment, the latest observation, the executor's locals, the actions
\* sent to the environment and the request's outcome.
VARIABLES multi, target_object_id, env, last_event, target_position,
          action_names, idx, turns, current_horizon, sent, result

pvars == <<nodes, adjacency, start_key, start_yaw, goal_key, jps, astar>>

xvars == <<multi, target_object_id, env, last_event, target_position,
           action_names, idx, turns, current_horizon, sent, result>>

vars == <<pvars, pc, xvars>>

----------------------------------------------------------------------------
(* Bounds of the model.                                                    *)

\* The node tables are the non-empty sets of cells among the first GridCells
\* cells, in row-major order, of a strip that is GridW cells wide.
GridW == 3
GridCells == 8

\* The environment of a navigation request offers the reachable positions
\* among the first ExecCells cells of the strip.
ExecCells == 4

\* The camera starts at most MaxStartTilt tilt increments above min_horizon,
\* or TiltJitter degrees short of the next increment.
MaxStartTilt == 1
TiltJitter == 10

\* A request sends at most MaxLooks LookUp and LookDown steps.
MaxLooks == 8

\* The open grid of the straight-ahead plans is OpenW cells wide and deep.
OpenW == 5

\* The yaws given to the heading snap lie between -MaxYaw and 360 + MaxYaw.
MaxYaw == 405

\* The position lists given to the grid indexer have at most MaxPositions
\* positions.
MaxPositions == 3

\* The desired yaws of a pose reach MaxDesired steps of DesiredStep degrees
\* below 0 and beyond 360.
MaxDesired == 6

----------------------------------------------------------------------------
(* nav_astar.py: constants and the grid indexer.                           *)

STEP_SIZE == 250

\* One unit of the key quantum: round(x, PRECISION) keeps multiples of 0.01.
KeyQuantum == 10

None == <<>>

Abs(n) == IF n < 0 THEN 0 - n ELSE n

\* Insertion order of the CARDINAL_DIRECTIONS mapping.
YawOrder == <<0, 90, 180, 270>>

Headings == {0, 90, 180, 270}

\* Mutant: heading 270 given the offset of heading 90.
CardinalDirectionsEastTwice(yaw) ==
    CASE yaw = 0   -> <<0, STEP_SIZE>>
      [] yaw = 90  -> <<STEP_SIZE, 0>>
      [] yaw = 180 -> <<0, 0 - STEP_SIZE>>
      [] yaw = 270 -> <<STEP_SIZE, 0>>

CARDINAL_DIRECTIONS(yaw) ==
    CASE yaw = 0   -> <<0, STEP_SIZE>>
      [] yaw = 90  -> <<STEP_SIZE, 0>>
      [] yaw = 180 -> <<0, 0 - STEP_SIZE>>
      [] yaw = 270 -> <<0 - STEP_SIZE, 0>>

DIR_TO_YAW(d) ==
    CASE d = <<0, 1>>  -> 0
      [] d = <<1, 0>>  -> 90
      [] d = <<0, -1>> -> 180
      [] d = <<-1, 0>> -> 270

\* round(v, 2) on a value given in thousandths: nearest multiple of 10
\* (no input of the model lies on a tie).
RoundKey(v) == ((v + (KeyQuantum \div 2)) \div KeyQuantum) * KeyQuantum

make_key(x, z) == <<RoundKey(x), RoundKey(z)>>

Pos(x, z) == [x |-> x, z |-> z]

\* build_node_lookup: key -> raw position; a later position overwrites an
\* earlier one with the same key.
RECURSIVE build_node_lookup(_)
build_node_lookup(positions) ==
    IF positions = <<>> THEN <<>>
    ELSE LET n == Len(positions)
             rest == build_node_lookup(SubSeq(positions, 1, n - 1))
             p == positions[n]
             k == make_key(p.x, p.z)
         IN [q \in (DOMAIN rest) \cup {k} |-> IF q = k THEN p ELSE rest[q]]

\* The node table of a set of grid cells <<i, j>>.
NodeTable(cells) ==
    [k \in {<<c[1] * STEP_SIZE, c[2] * STEP_SIZE>> : c \in cells}
        |-> Pos(k[1], k[2])]

NeighborKey(nd, key, yaw) ==
    make_key(nd[key].x + CARDINAL_DIRECTIONS(yaw)[1],
             nd[key].z + CARDINAL_DIRECTIONS(yaw)[2])

\* The headings, in the order of CARDINAL_DIRECTIONS, whose neighbor key is
\* in the node table.
OpenYaws(nd, key) ==
    LET Keep(yaw) == NeighborKey(nd, key, yaw) \in DOMAIN nd
    IN SelectSeq(YawOrder, Keep)

\* build_adjacency without the membership test: the four neighbour keys of
\* every node.
BuildAdjacencyUnfiltered(nd) ==
    [key \in DOMAIN nd |->
        [i \in 1..Len(YawOrder) |-> NeighborKey(nd, key, YawOrder[i])]]

\* build_adjacency with the offsets of headings 0 and 90 only.
BuildAdjacencyOneWay(nd) ==
    [key \in DOMAIN nd |->
        LET Ahead(yaw) == yaw \in {0, 90}
            open == SelectSeq(OpenYaws(nd, key), Ahead)
        IN [i \in 1..Len(open) |-> NeighborKey(nd, key, open[i])]]

build_adjacency(nd) ==
    [key \in DOMAIN nd |->
        [i \in 1..Len(OpenYaws(nd, key)) |->
            NeighborKey(nd, key, OpenYaws(nd, key)[i])]]

SeqToSet(s) == {s[i] : i \in 1..Len(s)}

movement_cost(nd, a, b) ==
    (Abs(nd[a].x - nd[b].x) + Abs(nd[a].z - nd[b].z)) \div STEP_SIZE

----------------------------------------------------------------------------
(* astar_actions: A* over (position, heading) states.                      *)

\* Squared heuristic in grid-step units: heuristic(key) is its square root,
\* hypot(dx, dz) / step_size.
HeurSq(nd, key, goal) ==
    LET dx == (nd[key].x - nd[goal].x) \div STEP_SIZE
        dz == (nd[key].z - nd[goal].z) \div STEP_SIZE
    IN dx * dx + dz * dz

\* sqrt(a) < d + sqrt(b), for naturals a, b and an integer d.
SqrtLess(a, d, b) ==
    IF d = 0 THEN a < b
    ELSE IF d > 0
         THEN \/ a <= b
              \/ a + b - d * d < 0
              \/ (a + b - d * d) * (a + b - d * d) < 4 * a * b
         ELSE /\ b > a
              /\ a + b - d * d > 0
              /\ (a + b - d * d) * (a + b - d * d) > 4 * a * b

\* f = g + sqrt(hsq): comparison of two priorities.
FLess(e1, e2) == SqrtLess(e1.hsq, e2.g - e1.g, e2.hsq)

\* Tuple order of the heap entries (f, g, counter, state).
AstarEntryLess(e1, e2) ==
    \/ FLess(e1, e2)
    \/ /\ ~FLess(e2, e1)
       /\ \/ e1.g < e2.g
          \/ e1.g = e2.g /\ e1.n < e2.n

\* heapq.heappop: the least entry.
AstarHeapMin(heap) ==
    CHOOSE e \in heap : \A o \in heap : o = e \/ AstarEntryLess(e, o)

AstarEntry(nd, goal, hkey, g, n, state) ==
    [hsq |-> HeurSq(nd, hkey, goal), g |-> g, n |-> n, state |-> state]

\* dict assignment d[k] = v.
Put(d, k, v) == [q \in (DOMAIN d) \cup {k} |-> IF q = k THEN v ELSE d[q]]

AstarStart(nd, start, yaw, goal) ==
    IF start = goal
    THEN [heap |-> {}, g_score |-> <<>>, came_from |-> <<>>, counter |-> 0,
          status |-> "returned", actions |-> <<>>, expanded |-> 0]
    ELSE [heap |-> {AstarEntry(nd, goal, start, 0, 0, <<start, yaw>>)},
          g_score |-> Put(<<>>, <<start, yaw>>, 0),
          came_from |-> <<>>, counter |-> 1,
          status |-> "running", actions |-> <<>>, expanded |-> 0]

\* Mutant: a rotation is recorded at no cost (g of the state turned from).
AstarRelaxFreeTurns(st, nd, goal, from, tentative_g, to, action, hkey) ==
    LET g == IF action = "MoveAhead" THEN tentative_g ELSE tentative_g - 1
    IN IF to \in DOMAIN st.g_score /\ g >= st.g_score[to]
       THEN st
       ELSE [st EXCEPT
               !.g_score = Put(st.g_score, to, g),
               !.came_from = Put(st.came_from, to, [prev |-> from, action |-> action]),
               !.heap = st.heap \cup {AstarEntry(nd, goal, hkey, g, st.counter, to)},
               !.counter = st.counter + 1]

\* A successor recorded whether or not tentative_g improves on g_score.
AstarRelaxUnconditional(st, nd, goal, from, tentative_g, to, action, hkey) ==
    [st EXCEPT
        !.g_score = Put(st.g_score, to, tentative_g),
        !.came_from = Put(st.came_from, to, [prev |-> from, action |-> action]),
        !.heap = st.heap \cup
                 {AstarEntry(nd, goal, hkey, tentative_g, st.counter, to)},
        !.counter = st.counter + 1]

\* One successor: record it when tentative_g improves on g_score.
AstarRelax(st, nd, goal, from, tentative_g, to, action, hkey) ==
    IF to \in DOMAIN st.g_score /\ tentative_g >= st.g_score[to]
    THEN st
    ELSE [st EXCEPT
            !.g_score = Put(st.g_score, to, tentative_g),
            !.came_from = Put(st.came_from, to, [prev |-> from, action |-> action]),
            !.heap = st.heap \cup
                     {AstarEntry(nd, goal, hkey, tentative_g, st.counter, to)},
            !.counter = st.counter + 1]

RECURSIVE AstarReconstructUnreversed(_, _, _)
\* Mutant: the action list is returned in goal-to-start order.
AstarReconstructUnreversed(came_from, state, acc) ==
    IF state \in DOMAIN came_from
    THEN AstarReconstructUnreversed(came_from, came_from[state].prev,
                                    acc \o <<came_from[state].action>>)
    ELSE acc

RECURSIVE AstarReconstruct(_, _, _)
\* Walk came_from back from the popped goal state; acc is the reversed list.
AstarReconstruct(came_from, state, acc) ==
    IF state \in DOMAIN came_from
    THEN AstarReconstruct(came_from, came_from[state].prev,
                          <<came_from[state].action>> \o acc)
    ELSE acc

\* The forward successor of a state: MoveAhead is offered when the cell
\* ahead is listed in adjacency[current_pos].
AstarForward(st, nd, adj, goal, cur, g) ==
    LET nk == NeighborKey(nd, cur[1], cur[2])
    IN IF nk \in SeqToSet(adj[cur[1]])
       THEN AstarRelax(st, nd, goal, cur, g + 1, <<nk, cur[2]>>, "MoveAhead", nk)
       ELSE st

\* AstarExpand without the RotateRight successor.
AstarExpandNoRightTurn(st, nd, adj, goal) ==
    IF st.heap = {}
    THEN [st EXCEPT !.status = "raised"]
    ELSE LET e == AstarHeapMin(st.heap)
             cur == e.state
             s0 == [st EXCEPT !.heap = st.heap \ {e}, !.expanded = st.expanded + 1]
         IN IF cur[1] = goal
            THEN [s0 EXCEPT !.status = "returned",
                            !.actions = AstarReconstruct(s0.came_from, cur, <<>>)]
            ELSE LET s1 == AstarRelax(s0, nd, goal, cur, e.g + 1,
                                      <<cur[1], (cur[2] - 90) % 360>>,
                                      "RotateLeft", cur[1])
                 IN AstarForward(s1, nd, adj, goal, cur, e.g)

\* One iteration of the while loop, or the raise after it.
AstarExpand(st, nd, adj, goal) ==
    IF st.heap = {}
    THEN [st EXCEPT !.status = "raised"]
    ELSE LET e == AstarHeapMin(st.heap)
             cur == e.state
             s0 == [st EXCEPT !.heap = st.heap \ {e}, !.expanded = st.expanded + 1]
         IN IF cur[1] = goal
            THEN [s0 EXCEPT !.status = "returned",
                            !.actions = AstarReconstruct(s0.came_from, cur, <<>>)]
            ELSE LET s1 == AstarRelax(s0, nd, goal, cur, e.g + 1,
                                      <<cur[1], (cur[2] - 90) % 360>>,
                                      "RotateLeft", cur[1])
                     s2 == AstarRelax(s1, nd, goal, cur, e.g + 1,
                                      <<cur[1], (cur[2] + 90) % 360>>,
                                      "RotateRight", cur[1])
                 IN AstarForward(s2, nd, adj, goal, cur, e.g)

RECURSIVE AstarRun(_, _, _, _)
AstarRun(st, nd, adj, goal) ==
    IF st.status = "running" THEN AstarRun(AstarExpand(st, nd, adj, goal), nd, adj, goal)
    ELSE st

astar_actions(nd, adj, start, yaw, goal) ==
    AstarRun(AstarStart(nd, start, yaw, goal), nd, adj, goal)

----------------------------------------------------------------------------
(* The rotation decomposer and the waypoint-to-primitive conversion.       *)

Repeat(x, n) == [i \in 1..n |-> x]

\* int(round(v / 90.0)) for 0 <= v <= 360, not a multiple of 45.
RoundQuarter(v) == (v + 45) \div 90

\* Mutant: the quarter turns of diff 90 and diff 270 exchanged.
RotationActionsSwapped(current_yaw, target_yaw) ==
    LET diff == (target_yaw - current_yaw) % 360
    IN CASE diff = 0   -> <<>>
         [] diff = 90  -> <<"RotateLeft">>
         [] diff = 180 -> <<"RotateRight", "RotateRight">>
         [] diff = 270 -> <<"RotateRight">>
         [] OTHER -> <<>>

_rotation_actions(current_yaw, target_yaw) ==
    LET diff == (target_yaw - current_yaw) % 360
    IN CASE diff = 0   -> <<>>
         [] diff = 90  -> <<"RotateRight">>
         [] diff = 180 -> <<"RotateRight", "RotateRight">>
         [] diff = 270 -> <<"RotateLeft">>
         [] OTHER -> IF diff < 180
                     THEN Repeat("RotateRight", RoundQuarter(diff))
                     ELSE Repeat("RotateLeft", RoundQuarter(360 - diff))

Sign(n) == IF n > 0 THEN 1 ELSE -1

\* The sentinel for the ValueError of _path_to_actions.
Diagonal == <<"Diagonal movement is not supported">>

RECURSIVE PathSegments(_, _, _, _, _)
\* The for loop of _path_to_actions from waypoint i on.
PathSegments(nd, path, i, yaw, acc) ==
    IF i >= Len(path) THEN acc
    ELSE LET dx == nd[path[i + 1]].x - nd[path[i]].x
             dz == nd[path[i + 1]].z - nd[path[i]].z
         IN IF dx # 0 /\ dz # 0 THEN Diagonal
            ELSE LET unit_dir == IF dx # 0 THEN <<Sign(dx), 0>> ELSE <<0, Sign(dz)>>
                     dist == IF dx # 0 THEN Abs(dx) ELSE Abs(dz)
                     steps == (dist + (STEP_SIZE \div 2)) \div STEP_SIZE
                     target_yaw == DIR_TO_YAW(unit_dir)
                 IN PathSegments(nd, path, i + 1, target_yaw,
                                 acc \o _rotation_actions(yaw, target_yaw)
                                     \o Repeat("MoveAhead", steps))

_path_to_actions(nd, path, yaw) ==
    IF Len(path) < 2 THEN <<>> ELSE PathSegments(nd, path, 1, yaw, <<>>)

----------------------------------------------------------------------------
(* jps_actions: orthogonal Jump Point Search over positions.               *)

_is_walkable(nd, x, z) == make_key(x, z) \in DOMAIN nd

_forced_neighbor_exists(nd, key, direction) ==
    LET dx == direction[1]
        dz == direction[2]
        x == nd[key].x
        z == nd[key].z
    IN IF dx # 0
       THEN \/ /\ ~_is_walkable(nd, x, z + STEP_SIZE)
               /\ _is_walkable(nd, x + dx * STEP_SIZE, z + STEP_SIZE)
            \/ /\ ~_is_walkable(nd, x, z - STEP_SIZE)
               /\ _is_walkable(nd, x + dx * STEP_SIZE, z - STEP_SIZE)
       ELSE \/ /\ ~_is_walkable(nd, x + STEP_SIZE, z)
               /\ _is_walkable(nd, x + STEP_SIZE, z + dz * STEP_SIZE)
            \/ /\ ~_is_walkable(nd, x - STEP_SIZE, z)
               /\ _is_walkable(nd, x - STEP_SIZE, z + dz * STEP_SIZE)

RECURSIVE _jump(_, _, _, _)
_jump(nd, current, direction, goal) ==
    LET next_key == make_key(nd[current].x + direction[1] * STEP_SIZE,
                             nd[current].z + direction[2] * STEP_SIZE)
    IN IF next_key \notin DOMAIN nd THEN None
       ELSE IF next_key = goal THEN next_key
       ELSE IF _forced_neighbor_exists(nd, next_key, direction) THEN next_key
       ELSE _jump(nd, next_key, direction, goal)

\* int(round(d / STEP_SIZE)) of a signed offset.
RoundSteps(d) == (d + (STEP_SIZE \div 2)) \div STEP_SIZE

SeqIf(cond, x) == IF cond THEN <<x>> ELSE <<>>

\* Every open cardinal direction at every node, with or without a parent.
PrunedDirectionsAllOpen(nd, current, parent) ==
    [i \in 1..Len(OpenYaws(nd, current)) |->
        <<RoundSteps(CARDINAL_DIRECTIONS(OpenYaws(nd, current)[i])[1]),
          RoundSteps(CARDINAL_DIRECTIONS(OpenYaws(nd, current)[i])[2])>>]

\* The diagonal direction (1, 1) ahead of every open cardinal direction.
PrunedDirectionsDiagonal(nd, current, parent) ==
    <<<<1, 1>>>> \o PrunedDirectionsAllOpen(nd, current, parent)

_pruned_directions(nd, current, parent) ==
    LET x == nd[current].x
        z == nd[current].z
    IN IF parent = None
       THEN [i \in 1..Len(OpenYaws(nd, current)) |->
                <<RoundSteps(CARDINAL_DIRECTIONS(OpenYaws(nd, current)[i])[1]),
                  RoundSteps(CARDINAL_DIRECTIONS(OpenYaws(nd, current)[i])[2])>>]
       ELSE LET diff_x == x - nd[parent].x
                diff_z == z - nd[parent].z
                dir_x == IF diff_x # 0 THEN RoundSteps(diff_x) ELSE 0
                dir_z == IF diff_z # 0 THEN RoundSteps(diff_z) ELSE 0
            IN IF dir_x # 0
               THEN SeqIf(_is_walkable(nd, x + dir_x * STEP_SIZE, z), <<dir_x, 0>>)
                    \o SeqIf(/\ ~_is_walkable(nd, x, z + STEP_SIZE)
                             /\ _is_walkable(nd, x + dir_x * STEP_SIZE, z + STEP_SIZE),
                             <<0, 1>>)
                    \o SeqIf(/\ ~_is_walkable(nd, x, z - STEP_SIZE)
                             /\ _is_walkable(nd, x + dir_x * STEP_SIZE, z - STEP_SIZE),
                             <<0, -1>>)
               ELSE IF dir_z # 0
               THEN SeqIf(_is_walkable(nd, x, z + dir_z * STEP_SIZE), <<0, dir_z>>)
                    \o SeqIf(/\ ~_is_walkable(nd, x + STEP_SIZE, z)
                             /\ _is_walkable(nd, x + STEP_SIZE, z + dir_z * STEP_SIZE),
                             <<1, 0>>)
                    \o SeqIf(/\ ~_is_walkable(nd, x - STEP_SIZE, z)
                             /\ _is_walkable(nd, x - STEP_SIZE, z + dir_z * STEP_SIZE),
                             <<-1, 0>>)
               ELSE <<>>

RECURSIVE _reconstruct_path(_, _, _, _)
\* acc is the path from current to the goal.
_reconstruct_path(parents, start, current, acc) ==
    IF current = start THEN acc
    ELSE _reconstruct_path(parents, start, parents[current],
                           <<parents[current]>> \o acc)

JpsHeuristic(nd, key, goal) ==
    (Abs(nd[key].x - nd[goal].x) + Abs(nd[key].z - nd[goal].z)) \div STEP_SIZE

\* Tuple order of the heap entries (f, g, counter, position).
JpsEntryLess(e1, e2) ==
    \/ e1.f < e2.f
    \/ e1.f = e2.f /\ e1.g < e2.g
    \/ e1.f = e2.f /\ e1.g = e2.g /\ e1.n < e2.n

JpsHeapMin(heap) ==
    CHOOSE e \in heap : \A o \in heap : o = e \/ JpsEntryLess(e, o)

\* jps_actions without the early return for start_key == goal_key.
JpsStartAlwaysSearching(nd, start, yaw, goal) ==
    [heap |-> {[f |-> JpsHeuristic(nd, start, goal), g |-> 0, n |-> 0,
                pos |-> start]},
     parents |-> <<>>, g_score |-> Put(<<>>, start, 0), closed |-> {},
     counter |-> 1, status |-> "running", actions |-> <<>>,
     path |-> <<>>, expanded |-> 0]

JpsStart(nd, start, yaw, goal) ==
    IF start = goal
    THEN [heap |-> {}, parents |-> <<>>, g_score |-> <<>>, closed |-> {},
          counter |-> 0, status |-> "returned", actions |-> <<>>,
          path |-> <<>>, expanded |-> 0]
    ELSE [heap |-> {[f |-> JpsHeuristic(nd, start, goal), g |-> 0, n |-> 0,
                     pos |-> start]},
          parents |-> <<>>, g_score |-> Put(<<>>, start, 0), closed |-> {},
          counter |-> 1, status |-> "running", actions |-> <<>>,
          path |-> <<>>, expanded |-> 0]

\* The body of the for loop over the pruned directions, for one direction.
JpsSuccessor(st, nd, goal, current, current_g, direction) ==
    LET jump_key == _jump(nd, current, direction, goal)
    IN IF jump_key = None THEN st
       ELSE LET tentative_g == current_g + movement_cost(nd, current, jump_key)
            IN IF jump_key \in DOMAIN st.g_score /\ tentative_g >= st.g_score[jump_key]
               THEN st
               ELSE [st EXCEPT
                       !.parents = Put(st.parents, jump_key, current),
                       !.g_score = Put(st.g_score, jump_key, tentative_g),
                       !.heap = st.heap \cup
                                {[f |-> tentative_g + JpsHeuristic(nd, jump_key, goal),
                                  g |-> tentative_g, n |-> st.counter,
                                  pos |-> jump_key]},
                       !.counter = st.counter + 1]

RECURSIVE JpsSuccessors(_, _, _, _, _, _, _)
JpsSuccessors(st, nd, goal, current, current_g, directions, i) ==
    IF i > Len(directions) THEN st
    ELSE JpsSuccessors(JpsSuccessor(st, nd, goal, current, current_g, directions[i]),
                       nd, goal, current, current_g, directions, i + 1)

\* One iteration of the while loop that never adds to the closed set.
JpsExpandNeverCloses(st, nd, start, yaw, goal) ==
    IF st.heap = {}
    THEN [st EXCEPT !.status = "raised"]
    ELSE LET e == JpsHeapMin(st.heap)
             current == e.pos
             s0 == [st EXCEPT !.heap = st.heap \ {e}]
         IN IF current \in st.closed THEN s0
            ELSE LET s1 == [s0 EXCEPT !.expanded = s0.expanded + 1]
                 IN IF current = goal
                    THEN LET path == _reconstruct_path(s1.parents, start, goal, <<goal>>)
                             acts == _path_to_actions(nd, path, yaw)
                         IN [s1 EXCEPT
                               !.path = path,
                               !.status = IF acts = Diagonal THEN "value_error"
                                          ELSE "returned",
                               !.actions = IF acts = Diagonal THEN <<>> ELSE acts]
                    ELSE LET parent == IF current \in DOMAIN s1.parents
                                       THEN s1.parents[current] ELSE None
                         IN JpsSuccessors(s1, nd, goal, current, e.g,
                                          _pruned_directions(nd, current, parent), 1)

\* One iteration of the while loop, or the raise after it.
JpsExpand(st, nd, start, yaw, goal) ==
    IF st.heap = {}
    THEN [st EXCEPT !.status = "raised"]
    ELSE LET e == JpsHeapMin(st.heap)
             current == e.pos
             s0 == [st EXCEPT !.heap = st.heap \ {e}]
         IN IF current \in st.closed THEN s0
            ELSE LET s1 == [s0 EXCEPT !.closed = s0.closed \cup {current},
                                      !.expanded = s0.expanded + 1]
                 IN IF current = goal
                    THEN LET path == _reconstruct_path(s1.parents, start, goal, <<goal>>)
                             acts == _path_to_actions(nd, path, yaw)
                         IN [s1 EXCEPT
                               !.path = path,
                               !.status = IF acts = Diagonal THEN "value_error"
                                          ELSE "returned",
                               !.actions = IF acts = Diagonal THEN <<>> ELSE acts]
                    ELSE LET parent == IF current \in DOMAIN s1.parents
                                       THEN s1.parents[current] ELSE None
                         IN JpsSuccessors(s1, nd, goal, current, e.g,
                                          _pruned_directions(nd, current, parent), 1)

RECURSIVE JpsRun(_, _, _, _, _)
JpsRun(st, nd, start, yaw, goal) ==
    IF st.status = "running"
    THEN JpsRun(JpsExpand(st, nd, start, yaw, goal), nd, start, yaw, goal)
    ELSE st

jps_actions(nd, start, yaw, goal) ==
    JpsRun(JpsStart(nd, start, yaw, goal), nd, start, yaw, goal)

----------------------------------------------------------------------------
(* The planners run on one request: jps_actions, then astar_actions on the *)
(* adjacency built from the same node table.                               *)

Cell(i) == <<i % GridW, i \div GridW>>

Cells == {Cell(i) : i \in 0..(GridCells - 1)}

NoEvent == [success |-> TRUE, meta |-> FALSE, x |-> 0, z |-> 0, yaw |-> 0,
            horizon |-> 0, visible |-> FALSE, error |-> "", ret |-> <<>>]

NoResult == [kind |-> "none", success |-> FALSE, error |-> ""]

NonePose == [none |-> TRUE, x |-> 0, z |-> 0, rotation |-> None]

\* No navigation request is in progress.
ExecIdle ==
    /\ multi = FALSE
    /\ target_object_id = ""
    /\ env = [positions |-> <<>>, x |-> 0, z |-> 0, yaw |-> 0, horizon |-> 0,
              tilts |-> TRUE]
    /\ last_event = NoEvent
    /\ target_position = NonePose
    /\ action_names = <<>>
    /\ idx = 0
    /\ turns = <<>>
    /\ current_horizon = 0
    /\ sent = <<>>
    /\ result = NoResult

NodeTables == {NodeTable(c) : c \in (SUBSET Cells) \ {{}}}

InitPlan ==
    /\ nodes \in NodeTables
    /\ start_key \in DOMAIN nodes
    /\ goal_key \in DOMAIN nodes
    /\ start_yaw \in Headings
    /\ adjacency = build_adjacency(nodes)
    /\ jps = JpsStart(nodes, start_key, start_yaw, goal_key)
    /\ astar = AstarStart(nodes, start_key, start_yaw, goal_key)
    /\ pc = "jps"
    /\ ExecIdle

JpsStep ==
    /\ pc = "jps"
    /\ jps.status = "running"
    /\ jps' = JpsExpand(jps, nodes, start_key, start_yaw, goal_key)
    /\ UNCHANGED <<nodes, adjacency, start_key, start_yaw, goal_key, astar, pc, xvars>>

JpsFinish ==
    /\ pc = "jps"
    /\ jps.status # "running"
    /\ pc' = "astar"
    /\ UNCHANGED <<pvars, xvars>>

\* An A* step that empties the caller's neighbour lists as it goes.
AstarStepClearingAdjacency ==
    /\ pc = "astar"
    /\ astar.status = "running"
    /\ astar' = AstarExpand(astar, nodes, adjacency, goal_key)
    /\ adjacency' = [k \in DOMAIN adjacency |-> <<>>]
    /\ UNCHANGED <<nodes, start_key, start_yaw, goal_key, jps, pc, xvars>>

AstarStep ==
    /\ pc = "astar"
    /\ astar.status = "running"
    /\ astar' = AstarExpand(astar, nodes, adjacency, goal_key)
    /\ UNCHANGED <<nodes, adjacency, start_key, start_yaw, goal_key, jps, pc, xvars>>

AstarFinish ==
    /\ pc = "astar"
    /\ astar.status # "running"
    /\ pc' = "planned"
    /\ UNCHANGED <<pvars, xvars>>

NextPlan == JpsStep \/ JpsFinish \/ AstarStep \/ AstarFinish

SpecPlan == InitPlan /\ [][NextPlan]_vars

----------------------------------------------------------------------------
(* The stepped environment of a navigation request and the base executor   *)
(* that sends one action to it (external interfaces).                      *)

\* MoveAhead in the environment: one grid step in the agent's heading.
StepAhead(pos, yaw) ==
    CASE yaw = 0   -> <<pos[1], pos[2] + STEP_SIZE>>
      [] yaw = 90  -> <<pos[1] + STEP_SIZE, pos[2]>>
      [] yaw = 180 -> <<pos[1], pos[2] - STEP_SIZE>>
      [] yaw = 270 -> <<pos[1] - STEP_SIZE, pos[2]>>

\* The tilt change of one accepted LookUp or LookDown, in degrees.
TiltStep == 30

min_horizon == -30
max_horizon == 90

\* agentId of an action sent without one.
NoAgent == -1

primary_agent_index == 0

StartTilts ==
    {min_horizon + k * TiltStep : k \in 0..MaxStartTilt}
    \cup {min_horizon + (MaxStartTilt + 1) * TiltStep - TiltJitter}

ExecCellSets == (SUBSET (0..(ExecCells - 1))) \ {{}}

\* GetReachablePositions: the positions of the cells of c, in row-major order.
PositionsOf(c) ==
    LET In(i) == i \in c
        ids == SelectSeq([i \in 1..ExecCells |-> i - 1], In)
    IN [i \in 1..Len(ids) |-> Pos(Cell(ids[i])[1] * STEP_SIZE, Cell(ids[i])[2] * STEP_SIZE)]

\* The environments whose camera tilts by TiltStep on every accepted Look
\* step, with the agent on one of the reachable positions.
Environments ==
    {e \in {[positions |-> PositionsOf(c), x |-> p[1] * STEP_SIZE,
             z |-> p[2] * STEP_SIZE, yaw |-> y, horizon |-> h, tilts |-> TRUE] :
                c \in ExecCellSets, p \in {Cell(i) : i \in 0..(ExecCells - 1)},
                y \in Headings, h \in StartTilts} :
        \E i \in 1..Len(e.positions) :
            e.x = e.positions[i].x /\ e.z = e.positions[i].z}

\* The environments that accept a Look step and report the camera tilt
\* unchanged (or report none, which leaves the executor's value unchanged).
StuckEnvironments == {[e EXCEPT !.tilts = FALSE] : e \in Environments}

\* The observation of environment state e: agent pose, camera tilt, whether
\* the target is listed visible (no object has the empty identifier),
\* lastActionSuccess, errorMessage and actionReturn.
Observe(e, success, visible, error) ==
    [success |-> success, meta |-> TRUE, x |-> e.x, z |-> e.z, yaw |-> e.yaw,
     horizon |-> e.horizon, visible |-> visible /\ target_object_id # "",
     error |-> error, ret |-> <<>>]

\* The environment after it accepted a motion primitive.
EnvAfter(e, action) ==
    CASE action = "MoveAhead" ->
            [e EXCEPT !.x = StepAhead(<<e.x, e.z>>, e.yaw)[1],
                      !.z = StepAhead(<<e.x, e.z>>, e.yaw)[2]]
      [] action = "RotateLeft" -> [e EXCEPT !.yaw = (e.yaw - 90) % 360]
      [] action = "RotateRight" -> [e EXCEPT !.yaw = (e.yaw + 90) % 360]
      [] action = "LookUp" ->
            IF e.tilts THEN [e EXCEPT !.horizon = e.horizon - TiltStep] ELSE e
      [] action = "LookDown" ->
            IF e.tilts THEN [e EXCEPT !.horizon = e.horizon + TiltStep] ELSE e

\* The agent can only move onto a reachable position.
EnvCanDo(e, action) ==
    action = "MoveAhead" =>
        \E i \in 1..Len(e.positions) :
            <<e.positions[i].x, e.positions[i].z>> = StepAhead(<<e.x, e.z>>, e.yaw)

\* The answers the environment may give to a motion primitive: it rejects
\* it (state unchanged, an error message) or accepts it; either way the
\* observation may or may not list the target as visible.
EnvAnswers(e, action) ==
    {[env |-> e, event |-> Observe(e, FALSE, v, "action rejected")] : v \in BOOLEAN}
    \cup (IF EnvCanDo(e, action)
          THEN {[env |-> EnvAfter(e, action),
                 event |-> Observe(EnvAfter(e, action), TRUE, v, "")] : v \in BOOLEAN}
          ELSE {})

\* A candidate pose: reachable position i with default rotation r.
PoseAt(e, i, r) ==
    [none |-> FALSE, x |-> e.positions[i].x, z |-> e.positions[i].z, rotation |-> <<r>>]

\* GetInteractablePoses: no pose, or a first candidate that is without a
\* position or is a reachable position with one of the four default
\* rotations, alone or followed by a second candidate.
Candidates(e) ==
    {NonePose} \cup {PoseAt(e, i, r) : i \in 1..Len(e.positions), r \in Headings}

Followers(e) == {<<>>, <<NonePose>>, <<PoseAt(e, Len(e.positions), 180)>>}

PoseLists(e) ==
    {<<>>} \cup {<<first>> \o rest : first \in Candidates(e), rest \in Followers(e)}

----------------------------------------------------------------------------
(* eval_llm_astar.py / eval_multi_llm_astar.py: the GotoLocation executor. *)

\* The snap without the offset of 45 degrees: the cardinal value at or below.
NormalizeYawTruncating(yaw) == ((yaw \div 90) * 90) % 360

normalize_yaw(yaw) == (((yaw + 45) \div 90) * 90) % 360

\* Iteration order of the node table: keys in order of first insertion.
RECURSIVE KeyOrder(_)
KeyOrder(positions) ==
    IF positions = <<>> THEN <<>>
    ELSE LET n == Len(positions)
             rest == KeyOrder(SubSeq(positions, 1, n - 1))
             k == make_key(positions[n].x, positions[n].z)
         IN IF k \in SeqToSet(rest) THEN rest ELSE Append(rest, k)

DistSq(nd, k, position) ==
    (nd[k].x - position.x) * (nd[k].x - position.x)
    + (nd[k].z - position.z) * (nd[k].z - position.z)

\* nearest_key without the search: the first key of the table when the
\* exact key is absent.
NearestKeyFirst(nd, order, position) ==
    LET key == make_key(position.x, position.z)
    IN IF key \in DOMAIN nd THEN key ELSE order[1]

\* nearest_key: the exact key when present, else min() over the table in
\* iteration order (the first of the nearest keys).
nearest_key(nd, order, position) ==
    LET key == make_key(position.x, position.z)
    IN IF key \in DOMAIN nd THEN key
       ELSE LET best == CHOOSE i \in 1..Len(order) :
                    /\ \A j \in 1..Len(order) :
                          DistSq(nd, order[i], position) <= DistSq(nd, order[j], position)
                    /\ \A j \in 1..(i - 1) :
                          DistSq(nd, order[j], position) > DistSq(nd, order[i], position)
            IN order[best]

\* _turn_actions with the half turn made of two RotateLeft.
TurnActionsHalfTurnLeft(current_yaw, desired_yaw) ==
    IF desired_yaw = None THEN <<>>
    ELSE LET current == normalize_yaw(current_yaw)
             desired == normalize_yaw(desired_yaw[1])
             diff == (desired - current) % 360
         IN CASE diff = 0   -> <<>>
              [] diff = 90  -> <<"RotateRight">>
              [] diff = 180 -> <<"RotateLeft", "RotateLeft">>
              [] diff = 270 -> <<"RotateLeft">>
              [] OTHER -> IF diff < 180
                          THEN Repeat("RotateRight", RoundQuarter(diff))
                          ELSE Repeat("RotateLeft", RoundQuarter(360 - diff))

\* _turn_actions with the desired yaw left unsnapped.
TurnActionsDesiredUnsnapped(current_yaw, desired_yaw) ==
    IF desired_yaw = None THEN <<>>
    ELSE LET current == normalize_yaw(current_yaw)
             diff == (desired_yaw[1] - current) % 360
         IN CASE diff = 0   -> <<>>
              [] diff = 90  -> <<"RotateRight">>
              [] diff = 180 -> <<"RotateRight", "RotateRight">>
              [] diff = 270 -> <<"RotateLeft">>
              [] OTHER -> IF diff < 180
                          THEN Repeat("RotateRight", RoundQuarter(diff))
                          ELSE Repeat("RotateLeft", RoundQuarter(360 - diff))

_turn_actions(current_yaw, desired_yaw) ==
    IF desired_yaw = None THEN <<>>
    ELSE LET current == normalize_yaw(current_yaw)
             desired == normalize_yaw(desired_yaw[1])
             diff == (desired - current) % 360
         IN CASE diff = 0   -> <<>>
              [] diff = 90  -> <<"RotateRight">>
              [] diff = 180 -> <<"RotateRight", "RotateRight">>
              [] diff = 270 -> <<"RotateLeft">>
              [] OTHER -> IF diff < 180
                          THEN Repeat("RotateRight", RoundQuarter(diff))
                          ELSE Repeat("RotateLeft", RoundQuarter(360 - diff))

PlannerIdle == [status |-> "idle", actions |-> <<>>]

Returned(success, error) == [kind |-> "returned", success |-> success, error |-> error]

Raised(error) == [kind |-> "raised", success |-> FALSE, error |-> error]

\* agentId given by _dispatch_nav_action and by the overridden
\* execute_action of the multi-agent executor.
AgentTag == IF multi THEN primary_agent_index ELSE NoAgent

\* The log of the actions sent to the environment, each with the agentId it
\* carried, whether the environment accepted it and the camera tilt of the
\* observation it answered with.
Sent(action, agentId, event) ==
    Append(sent, [action |-> action, agentId |-> agentId, ok |-> event.success,
                  horizon |-> event.horizon])

LookSteps == {"LookUp", "LookDown"}

\* The number of Look steps sent so far.
LooksSent == Cardinality({i \in 1..Len(sent) : sent[i].action \in LookSteps})

\* Lines 88-91 and 102-104: a rejected plan primitive or alignment turn is
\* returned with the observation and error of the base executor.
NavFailure(event) == Returned(FALSE, event.error)

\* Lines 168-169 and 179-180: a rejected Look step of the tilt scan.
LookFailureReturned(action) == Returned(FALSE, action \o " action failed during horizon adjustment")

LookFailure(action) == Raised(action \o " action failed during horizon adjustment")

\* A navigation request arrives, in one of the environments envs.
InitIn(envs) ==
    /\ pc = "request"
    /\ multi \in BOOLEAN
    /\ target_object_id \in {"Mug|1", ""}
    /\ env \in envs
    /\ last_event = NoEvent
    /\ target_position = NonePose
    /\ action_names = <<>>
    /\ idx = 0
    /\ turns = <<>>
    /\ current_horizon = 0
    /\ sent = <<>>
    /\ result = NoResult
    /\ nodes = <<>>
    /\ adjacency = <<>>
    /\ start_key = None
    /\ start_yaw = 0
    /\ goal_key = None
    /\ jps = PlannerIdle
    /\ astar = PlannerIdle

Init == InitIn(Environments)

\* _execute_goto, lines 45-50: query the reachable positions.  A reply with
\* metadata is replaced by the reply to the next query before anything
\* reads its visibility flag, so one value of the flag stands for both.
GetReachablePositions ==
    /\ pc = "request"
    /\ \/ /\ last_event' = Observe(env, TRUE, FALSE, "")
          /\ pc' = "poses"
          /\ result' = result
       \/ \E v \in BOOLEAN :
             /\ last_event' = [Observe(env, TRUE, v, "") EXCEPT !.meta = FALSE]
             /\ pc' = "done"
             /\ result' = Returned(FALSE, "No reachable positions found")
    /\ sent' = Sent("GetReachablePositions", NoAgent, last_event')
    /\ UNCHANGED <<pvars, multi, target_object_id, env, target_position,
                   action_names, idx, turns, current_horizon>>

\* PlanFor with the fallback taken whatever JPS did.
PlanForAlwaysAstar(positions, agent, pose) ==
    LET nd == build_node_lookup(positions)
        order == KeyOrder(positions)
        sk == nearest_key(nd, order, agent)
        tk == nearest_key(nd, order, pose)
        sy == normalize_yaw(agent.yaw)
        adj == build_adjacency(nd)
    IN [nodes |-> nd, start_key |-> sk, goal_key |-> tk, start_yaw |-> sy,
        jps |-> jps_actions(nd, sk, sy, tk), adjacency |-> adj,
        astar |-> astar_actions(nd, adj, sk, sy, tk)]

\* Lines 68-79 on the reply to GetReachablePositions and the first pose.
PlanFor(positions, agent, pose) ==
    LET nd == build_node_lookup(positions)
        order == KeyOrder(positions)
        sk == nearest_key(nd, order, agent)
        tk == nearest_key(nd, order, pose)
        sy == normalize_yaw(agent.yaw)
        j == jps_actions(nd, sk, sy, tk)
        fallback == j.status = "raised"
        adj == IF fallback THEN build_adjacency(nd) ELSE <<>>
        a == IF fallback THEN astar_actions(nd, adj, sk, sy, tk) ELSE PlannerIdle
    IN [nodes |-> nd, start_key |-> sk, goal_key |-> tk, start_yaw |-> sy,
        jps |-> j, adjacency |-> adj, astar |-> a]

\* PlanOutcome with the planners' failure swallowed into an empty plan.
PlanOutcomeEmptyOnFailure(plan) ==
    IF plan.jps.status = "returned"
    THEN [raised |-> FALSE, actions |-> plan.jps.actions, error |-> ""]
    ELSE IF plan.astar.status = "returned"
    THEN [raised |-> FALSE, actions |-> plan.astar.actions, error |-> ""]
    ELSE [raised |-> FALSE, actions |-> <<>>, error |-> ""]

\* Lines 75-79: action_names, or the exception that leaves the try
\* statement (a ValueError of JPS is not caught; neither is the
\* RuntimeError of A*).
PlanOutcome(plan) ==
    IF plan.jps.status = "returned"
    THEN [raised |-> FALSE, actions |-> plan.jps.actions, error |-> ""]
    ELSE IF plan.jps.status = "value_error"
    THEN [raised |-> TRUE, actions |-> <<>>, error |-> "Diagonal movement is not supported"]
    ELSE IF plan.astar.status = "returned"
    THEN [raised |-> FALSE, actions |-> plan.astar.actions, error |-> ""]
    ELSE [raised |-> TRUE, actions |-> <<>>, error |-> "No path found to target"]

\* The target never found in an observation.
ObjectVisibleNever(event) == FALSE

\* Lines 188-196: the observation has metadata and lists the target as
\* visible.
_is_object_visible(event) == event.meta /\ event.visible

\* The last candidate taken in place of the first.
LastPose(poses) == poses[Len(poses)]

\* Line 63: the first candidate.
FirstPose(poses) == poses[1]

\* _execute_goto, lines 52-83: query the candidate poses; an empty list
\* raises, a first candidate without a position is returned as a failure;
\* otherwise the first candidate is the target: build the node table and
\* plan with JPS, falling back to A*.
GetInteractablePoses ==
    /\ pc = "poses"
    /\ sent' = Sent("GetInteractablePoses", NoAgent, Observe(env, TRUE, FALSE, ""))
    /\ \/ \E v \in BOOLEAN :
             /\ last_event' = Observe(env, TRUE, v, "")
             /\ result' = Raised("No interactable poses returned for target object")
             /\ pc' = "done"
             /\ UNCHANGED <<pvars, target_position, action_names, idx>>
       \/ \E poses \in PoseLists(env) \ {<<>>}, v \in BOOLEAN :
             /\ FirstPose(poses).none
             /\ last_event' = [Observe(env, TRUE, v, "") EXCEPT !.ret = poses]
             /\ result' = Returned(FALSE, "GotoLocation missing valid target")
             /\ pc' = "done"
             /\ UNCHANGED <<pvars, target_position, action_names, idx>>
       \/ \E target \in Candidates(env) \ {NonePose} :
             \E plan \in {PlanFor(env.positions, last_event, target)} :
                \E poses \in PoseLists(env) \ {<<>>}, v \in BOOLEAN :
                   /\ ~FirstPose(poses).none
                   /\ FirstPose(poses) = target
                   /\ last_event' = [Observe(env, TRUE, v, "") EXCEPT !.ret = poses]
                   /\ target_position' = target
                   /\ nodes' = plan.nodes
                   /\ start_key' = plan.start_key
                   /\ goal_key' = plan.goal_key
                   /\ start_yaw' = plan.start_yaw
                   /\ jps' = plan.jps
                   /\ adjacency' = plan.adjacency
                   /\ astar' = plan.astar
                   /\ IF PlanOutcome(plan).raised
                      THEN /\ action_names' = <<>>
                           /\ idx' = idx
                           /\ pc' = "done"
                           /\ result' = Raised(PlanOutcome(plan).error)
                      ELSE /\ action_names' = PlanOutcome(plan).actions
                           /\ idx' = 1
                           /\ pc' = "execute"
                           /\ result' = result
    /\ UNCHANGED <<multi, target_object_id, env, turns, current_horizon>>

\* The plan loop going on to the next primitive whatever the answer.
PlanLoopNeverBreaks(event) == TRUE

\* Lines 86-88: the plan loop goes on only after an accepted primitive.
PlanLoopContinues(event) == event.success

\* Lines 85-91: send the next plan primitive through _dispatch_nav_action;
\* a rejected primitive ends the request with (False, event, error).
ExecutePrimitive ==
    /\ pc = "execute"
    /\ idx <= Len(action_names)
    /\ \E ans \in EnvAnswers(env, action_names[idx]) :
          /\ sent' = Sent(action_names[idx], AgentTag, ans.event)
          /\ env' = ans.env
          /\ last_event' = ans.event
          /\ IF PlanLoopContinues(ans.event)
             THEN idx' = idx + 1 /\ pc' = pc /\ result' = result
             ELSE idx' = idx /\ pc' = "done" /\ result' = NavFailure(ans.event)
    /\ UNCHANGED <<pvars, multi, target_object_id, target_position, action_names,
                   turns, current_horizon>>

\* Lines 93-101: after the last plan primitive, read the current yaw from
\* the latest observation and compute the alignment turns.
ComputeTurns ==
    /\ pc = "execute"
    /\ idx > Len(action_names)
    /\ turns' = _turn_actions(last_event.yaw, target_position.rotation)
    /\ idx' = 1
    /\ pc' = "align"
    /\ UNCHANGED <<pvars, multi, target_object_id, env, last_event, target_position,
                   action_names, current_horizon, sent, result>>

\* Lines 101-104: send the next alignment turn with the base executor's
\* execute_action (super() of EvalLLMAstar, whatever the executor class).
ExecuteTurn ==
    /\ pc = "align"
    /\ idx <= Len(turns)
    /\ \E ans \in EnvAnswers(env, turns[idx]) :
          /\ sent' = Sent(turns[idx], NoAgent, ans.event)
          /\ env' = ans.env
          /\ last_event' = ans.event
          /\ IF ans.event.success
             THEN idx' = idx + 1 /\ pc' = pc /\ result' = result
             ELSE idx' = idx /\ pc' = "done" /\ result' = NavFailure(ans.event)
    /\ UNCHANGED <<pvars, multi, target_object_id, target_position, action_names,
                   turns, current_horizon>>

\* The tilt scan run for every request that names a target.
NeedsScanAlways(event) == target_object_id # ""

\* Lines 107-110: the tilt scan is run for a target that the latest
\* observation does not list as visible.
NeedsScan(event) == target_object_id # "" /\ ~_is_object_visible(event)

\* Lines 106-114 and 151-164: the visibility check on the latest
\* observation; an invisible target starts the tilt scan.
CheckVisible ==
    /\ pc = "align"
    /\ idx > Len(turns)
    /\ IF ~NeedsScan(last_event)
       THEN /\ result' = Returned(TRUE, "")
            /\ pc' = "done"
            /\ current_horizon' = current_horizon
       ELSE /\ current_horizon' = last_event.horizon
            /\ pc' = "look_up"
            /\ result' = result
    /\ UNCHANGED <<pvars, multi, target_object_id, env, last_event, target_position,
                   action_names, idx, turns, sent>>

\* Lines 166-173 (90-100 in the multi-agent executor): one LookUp.
LookUp ==
    /\ pc = "look_up"
    /\ current_horizon > min_horizon
    /\ LooksSent < MaxLooks
    /\ \E ans \in EnvAnswers(env, "LookUp") :
          /\ sent' = Sent("LookUp", AgentTag, ans.event)
          /\ env' = ans.env
          /\ last_event' = ans.event
          /\ IF ~ans.event.success
             THEN /\ result' = LookFailure("LookUp")
                  /\ pc' = "done"
                  /\ current_horizon' = current_horizon
             ELSE IF _is_object_visible(ans.event)
             THEN /\ result' = Returned(TRUE, "")
                  /\ pc' = "done"
                  /\ current_horizon' = current_horizon
             ELSE /\ result' = result
                  /\ pc' = pc
                  /\ current_horizon' = ans.event.horizon
    /\ UNCHANGED <<pvars, multi, target_object_id, target_position, action_names,
                   idx, turns>>

\* The look-down loop entered without waiting for the look-up loop to end.
LookingDownAtOnce == pc \in {"look_up", "look_down"}

\* The look-up loop is over: its condition failed, or the look-down loop
\* has been entered.
LookingDown ==
    \/ pc = "look_up" /\ ~(current_horizon > min_horizon)
    \/ pc = "look_down"

\* Lines 177-184 (105-115 in the multi-agent executor): one LookDown.
LookDown ==
    /\ LookingDown
    /\ current_horizon < max_horizon
    /\ LooksSent < MaxLooks
    /\ \E ans \in EnvAnswers(env, "LookDown") :
          /\ sent' = Sent("LookDown", AgentTag, ans.event)
          /\ env' = ans.env
          /\ last_event' = ans.event
          /\ IF ~ans.event.success
             THEN /\ result' = LookFailure("LookDown")
                  /\ pc' = "done"
                  /\ current_horizon' = current_horizon
             ELSE IF _is_object_visible(ans.event)
             THEN /\ result' = Returned(TRUE, "")
                  /\ pc' = "done"
                  /\ current_horizon' = current_horizon
             ELSE /\ result' = result
                  /\ pc' = "look_down"
                  /\ current_horizon' = ans.event.horizon
    /\ UNCHANGED <<pvars, multi, target_object_id, target_position, action_names,
                   idx, turns>>

\* The scan's end reported as an ordinary failure.
ScanFailureReturned == Returned(FALSE, "")

HeldObjectError ==
    "Horizon adjustment exceeded limits without finding target object. This happened because an object being held is likely blocking the agent's view"

ScanFailure == Raised(HeldObjectError)

\* Line 186 (117-120): both loops ended without the target in view.
ScanExhausted ==
    /\ LookingDown
    /\ ~(current_horizon < max_horizon)
    /\ result' = ScanFailure
    /\ pc' = "done"
    /\ UNCHANGED <<pvars, multi, target_object_id, env, last_event, target_position,
                   action_names, idx, turns, current_horizon, sent>>

Next ==
    \/ GetReachablePositions
    \/ GetInteractablePoses
    \/ ExecutePrimitive
    \/ ComputeTurns
    \/ ExecuteTurn
    \/ CheckVisible
    \/ LookUp
    \/ LookDown
    \/ ScanExhausted

Spec == Init /\ [][Next]_vars

\* The executor in any environment that answers every step with a success
\* flag and an observation, whether or not its camera tilts.
InitAnyTilt == InitIn(Environments \cup StuckEnvironments)

SpecAnyTilt == InitAnyTilt /\ [][Next]_vars

----------------------------------------------------------------------------
(* Reference notions the planner claims are stated with.                   *)

\* The cell one grid step ahead of pos in heading yaw.
AdjacentInGraph(a, b) == b \in SeqToSet(adjacency[a])

WalkableCell(a, b) == b \in DOMAIN nodes

MayEnter(rule, a, b) ==
    IF rule = "adjacent" THEN AdjacentInGraph(a, b) ELSE WalkableCell(a, b)

RECURSIVE Replay(_, _, _, _, _)
\* The position after plan[i..] from (pos, yaw), or None when a MoveAhead
\* enters a cell that the rule ("adjacent" or "walkable") does not allow.
Replay(plan, i, pos, yaw, rule) ==
    IF i > Len(plan) THEN pos
    ELSE CASE plan[i] = "RotateLeft" ->
                Replay(plan, i + 1, pos, (yaw - 90) % 360, rule)
           [] plan[i] = "RotateRight" ->
                Replay(plan, i + 1, pos, (yaw + 90) % 360, rule)
           [] plan[i] = "MoveAhead" ->
                IF MayEnter(rule, pos, StepAhead(pos, yaw))
                THEN Replay(plan, i + 1, StepAhead(pos, yaw), yaw, rule)
                ELSE None
           [] OTHER -> None

\* Two keys one cardinal grid step apart.
GridNeighbors(a, b) == Abs(a[1] - b[1]) + Abs(a[2] - b[2]) = STEP_SIZE

RECURSIVE Reach(_, _)
\* The keys of nd connected to the keys of seen in the 4-connected grid.
Reach(nd, seen) ==
    LET more == {k \in DOMAIN nd : \E q \in seen : GridNeighbors(q, k)} \ seen
    IN IF more = {} THEN seen ELSE Reach(nd, seen \cup more)

Connected(nd, a, b) == b \in Reach(nd, {a})

\* The (position, heading) states one valid primitive away from s.
PrimitiveSuccessors(s) ==
    {<<s[1], (s[2] - 90) % 360>>, <<s[1], (s[2] + 90) % 360>>}
    \cup (IF AdjacentInGraph(s[1], StepAhead(s[1], s[2]))
          THEN {<<StepAhead(s[1], s[2]), s[2]>>} ELSE {})

RECURSIVE ShortestFrom(_, _, _, _)
\* Breadth-first search: the least number of valid primitives from the
\* frontier (at depth d) to a state at goal, or -1 when there is none.
ShortestFrom(frontier, seen, goal, d) ==
    IF \E s \in frontier : s[1] = goal THEN d
    ELSE IF frontier = {} THEN -1
    ELSE LET next == (UNION {PrimitiveSuccessors(s) : s \in frontier}) \ seen
         IN ShortestFrom(next, seen \cup next, goal, d + 1)

ShortestPlanLength ==
    ShortestFrom({<<start_key, start_yaw>>}, {<<start_key, start_yaw>>}, goal_key, 0)

CountOf(plan, a) == Cardinality({i \in 1..Len(plan) : plan[i] = a})

ManhattanSteps(a, b) == (Abs(a[1] - b[1]) + Abs(a[2] - b[2])) \div STEP_SIZE

----------------------------------------------------------------------------
(* Planner claims, checked under SpecPlan.                                 *)

\* C1: every plan astar_actions returns replays from (start, start heading)
\* with each MoveAhead entering a cell adjacent in the adjacency graph, and
\* ends on the goal key.
C1_AstarPlanValid ==
    astar.status = "returned" =>
        Replay(astar.actions, 1, start_key, start_yaw, "adjacent") = goal_key

C1_Witness ==
    /\ astar.status = "returned"
    /\ CountOf(astar.actions, "MoveAhead") >= 3
    /\ CountOf(astar.actions, "RotateLeft") >= 1
    /\ CountOf(astar.actions, "RotateRight") >= 1

\* C2: the length of the plan astar_actions returns is the least number of
\* valid primitives leading from (start, start heading) to the goal position.
C2_AstarMinimal ==
    astar.status = "returned" => Len(astar.actions) = ShortestPlanLength

C2_Witness ==
    /\ astar.status = "returned"
    /\ CountOf(astar.actions, "MoveAhead") > ManhattanSteps(start_key, goal_key)
    /\ Len(astar.actions) >= 6

\* C3: for start # goal, astar_actions raises no-path exactly when the goal
\* is not connected to the start in the 4-connected grid, and returns a plan
\* otherwise.
C3_AstarComplete ==
    (start_key # goal_key /\ astar.status # "running") =>
        /\ astar.status = "raised" <=> ~Connected(nodes, start_key, goal_key)
        /\ Connected(nodes, start_key, goal_key) => astar.status = "returned"

C3_Witness ==
    /\ astar.status = "raised"
    /\ start_key # goal_key
    /\ Cardinality(Reach(nodes, {start_key})) >= 3

\* C4: every plan jps_actions returns replays from (start, start heading)
\* with each MoveAhead entering a walkable cell one step ahead, ends on the
\* goal key, and its goal is connected to the start.
C4_JpsPlanValid ==
    jps.status = "returned" =>
        /\ Replay(jps.actions, 1, start_key, start_yaw, "walkable") = goal_key
        /\ Connected(nodes, start_key, goal_key)

C4_Witness ==
    /\ jps.status = "returned"
    /\ CountOf(jps.actions, "MoveAhead") >= 2
    /\ Len(jps.actions) > CountOf(jps.actions, "MoveAhead")
    /\ Len(jps.path) >= 3

\* C5: for connected start and goal, jps_actions returns a plan with as many
\* MoveAhead primitives as the plan of astar_actions.
C5_PlannersAgree ==
    (pc = "planned" /\ Connected(nodes, start_key, goal_key)) =>
        /\ jps.status = "returned"
        /\ CountOf(jps.actions, "MoveAhead") = CountOf(astar.actions, "MoveAhead")

----------------------------------------------------------------------------
(* Notions the executor claims are stated with.                            *)

MotionPrimitives == {"MoveAhead", "RotateLeft", "RotateRight", "LookUp", "LookDown"}

\* The motion primitives sent so far, in order.
MotionSent ==
    LET IsMotion(r) == r.action \in MotionPrimitives
    IN SelectSeq(sent, IsMotion)

ActionsOf(log) == [i \in 1..Len(log) |-> log[i].action]

\* The number of plan primitives and alignment turns of the request.
NavLength == Len(action_names) + Len(turns)

\* A planner returned a plan.
PlanReady == jps.status = "returned" \/ astar.status = "returned"

\* C6: JPS is attempted before anything is executed; A* and build_adjacency
\* run exactly when JPS raised its no-path error; a plan returned by JPS is
\* the plan that is executed.
C6_FallbackOrder ==
    /\ target_position # NonePose => jps.status # "idle"
    /\ MotionSent # <<>> => jps.status \in {"returned", "raised"}
    /\ astar.status # "idle" <=> jps.status = "raised"
    /\ DOMAIN adjacency # {} <=> jps.status = "raised"
    /\ jps.status = "returned" =>
          /\ action_names = jps.actions
          /\ \A i \in 1..Len(MotionSent) :
                i <= Len(jps.actions) => MotionSent[i].action = jps.actions[i]

C6_Witness ==
    /\ jps.status = "raised"
    /\ astar.status = "returned"
    /\ Len(astar.actions) >= 3
    /\ result = Returned(TRUE, "")
    /\ SubSeq(ActionsOf(MotionSent), 1, Len(astar.actions)) = astar.actions

\* C7: when JPS and A* both fail, the request raises and has sent no
\* motion primitive.
C7_PlanningFailureRaises ==
    (jps.status = "raised" /\ astar.status = "raised") =>
        /\ pc = "done"
        /\ result.kind = "raised"
        /\ MotionSent = <<>>

C7_Witness ==
    /\ jps.status = "raised"
    /\ astar.status = "raised"
    /\ result = Raised("No path found to target")
    /\ Cardinality(DOMAIN nodes) >= 3

\* C8: the motion primitives sent are the plan's primitives in order and
\* then the alignment turns in order; a rejected plan primitive or turn is
\* the last action of the request, which then has returned a failure; and a
\* turn is only sent after every plan primitive was accepted.
C8_StopOnFirstFailure ==
    /\ \A i \in 1..Len(MotionSent) :
          /\ i <= Len(action_names) => MotionSent[i].action = action_names[i]
          /\ (Len(action_names) < i /\ i <= NavLength) =>
                /\ MotionSent[i].action = turns[i - Len(action_names)]
                /\ \A j \in 1..Len(action_names) : MotionSent[j].ok
    /\ \A k \in 1..Len(sent) :
          (~sent[k].ok /\ sent[k].action \notin LookSteps) =>
              /\ k = Len(sent)
              /\ pc = "done"
              /\ result.kind = "returned"
              /\ ~result.success
              /\ ~last_event.success

C8_Witness ==
    /\ pc = "done"
    /\ Len(action_names) >= 2
    /\ Len(turns) = 2
    /\ Len(MotionSent) = NavLength
    /\ ~MotionSent[NavLength].ok
    /\ result.kind = "returned"

\* C9 as amended: a rejected plan primitive or alignment turn ends the
\* request by returning (False, observation, message); a rejected LookUp or
\* LookDown of the tilt scan ends it by raising the Look step's error.
C9_RejectionsByPhase ==
    \A i \in 1..Len(MotionSent) :
        ~MotionSent[i].ok =>
            IF MotionSent[i].action \in LookSteps
            THEN /\ result.kind = "raised"
                 /\ result.error =
                       MotionSent[i].action \o " action failed during horizon adjustment"
            ELSE /\ result.kind = "returned"
                 /\ ~result.success
                 /\ result.error = last_event.error

C9_Witness ==
    /\ Len(MotionSent) > NavLength + 1
    /\ MotionSent[Len(MotionSent)].action = "LookDown"
    /\ ~MotionSent[Len(MotionSent)].ok
    /\ MotionSent[NavLength + 1].action = "LookUp"
    /\ result.kind = "raised"

\* C9 as stated: whichever primitive the environment rejects, a Look step
\* of the tilt scan included, the request returns a failure and does not
\* raise.
C9_RejectionsReturned ==
    \A i \in 1..Len(MotionSent) :
        ~MotionSent[i].ok => (result.kind = "returned" /\ ~result.success)

----------------------------------------------------------------------------
(* The tilt scan as a state machine.                                       *)

\* The state of the tilt scan: in the look-up loop, in the look-down loop
\* (the look-up loop's condition is false), or ended after at least one
\* Look step in success, in the held-object error or in a Look step's error.
ScanPhase ==
    IF pc = "look_up" /\ current_horizon > min_horizon THEN "Searching-Up"
    ELSE IF pc \in {"look_up", "look_down"} THEN "Searching-Down"
    ELSE IF LooksSent = 0 THEN "Idle"
    ELSE IF result = Returned(TRUE, "") THEN "Found"
    ELSE IF result = Raised(HeldObjectError) THEN "Exhausted-Fatal"
    ELSE "Look-Failed"

\* The scan is entered in its look-up loop; with the camera already at the
\* lower bound that loop ends at once.
ScanEntries == {<<"Idle", "Searching-Up">>, <<"Idle", "Searching-Down">>}

ScanTransitions ==
    {<<"Searching-Up", "Found">>, <<"Searching-Up", "Searching-Down">>,
     <<"Searching-Down", "Found">>, <<"Searching-Down", "Exhausted-Fatal">>}

LookFailureTransitions ==
    {<<"Searching-Up", "Look-Failed">>, <<"Searching-Down", "Look-Failed">>}

\* No LookUp is sent after a LookDown.
LookUpsFirst ==
    \A i, j \in 1..Len(sent) :
        (i < j /\ sent[i].action = "LookDown") => sent[j].action # "LookUp"

\* Every observation the scan goes on from has been checked and does not
\* list the target as visible; an accepted Look step whose observation
\* lists it has ended the request in success.
VisibilityChecked ==
    /\ pc \in {"look_up", "look_down"} => ~last_event.visible
    /\ (LooksSent > 0 /\ last_event.success /\ last_event.visible) =>
          (pc = "done" /\ result = Returned(TRUE, ""))

\* Nothing is sent after a Look step's observation listed the target.
StopsWhenVisible == (LooksSent > 0 /\ last_event.visible) => sent' = sent

\* C11 as amended: the scan moves Searching-Up -> Found | Searching-Down |
\* Look-Failed and Searching-Down -> Found | Exhausted-Fatal | Look-Failed
\* only (Look-Failed: a rejected Look step raised); LookUp steps all precede
\* LookDown steps; visibility is checked after every Look step and nothing
\* is sent once an observation of the scan lists the target.
C11_ScanStateMachine ==
    /\ [][/\ ScanPhase' # ScanPhase =>
                <<ScanPhase, ScanPhase'>> \in
                    ScanEntries \cup ScanTransitions \cup LookFailureTransitions
          /\ StopsWhenVisible]_vars
    /\ [](LookUpsFirst /\ VisibilityChecked)

C11_Witness ==
    /\ ScanPhase = "Found"
    /\ \E i, j \in 1..Len(sent) :
          i < j /\ sent[i].action = "LookUp" /\ sent[j].action = "LookDown"
    /\ Len(action_names) >= 1

\* C11 as stated: the scan's only transitions are Searching-Up -> Found |
\* Searching-Down and Searching-Down -> Found | Exhausted-Fatal; LookUp
\* steps all precede LookDown steps; visibility is checked after every Look
\* step and nothing is sent once an observation lists the target.
C11_FourTransitionsOnly ==
    /\ [][/\ ScanPhase' # ScanPhase =>
                <<ScanPhase, ScanPhase'>> \in ScanEntries \cup ScanTransitions
          /\ StopsWhenVisible]_vars
    /\ [](LookUpsFirst /\ VisibilityChecked)

\* The Look steps sent so far, in order.
LooksOf(log) ==
    LET IsLook(r) == r.action \in LookSteps
    IN SelectSeq(log, IsLook)

\* C12: when a step of the look-up phase is accepted with an observation
\* that lists the target as visible at a tilt of at least min_horizon, the
\* scan ends in Found, every Look step of the request was a LookUp and no
\* tilt observed after a Look step is below min_horizon.
C12_LookUpOnlyRecovery ==
    [][( /\ ScanPhase = "Searching-Up"
         /\ sent' # sent
         /\ last_event'.success
         /\ last_event'.visible
         /\ last_event'.horizon >= min_horizon ) =>
            /\ ScanPhase' = "Found"
            /\ result' = Returned(TRUE, "")
            /\ \A i \in 1..Len(LooksOf(sent')) :
                  /\ LooksOf(sent')[i].action = "LookUp"
                  /\ LooksOf(sent')[i].horizon >= min_horizon]_vars

C12_Witness ==
    /\ ScanPhase = "Found"
    /\ last_event.horizon = -10
    /\ last_event.visible
    /\ Len(LooksOf(sent)) >= 1
    /\ \A i \in 1..Len(LooksOf(sent)) : LooksOf(sent)[i].action = "LookUp"
    /\ Len(action_names) >= 1

\* The number of Look steps of the longest scan in an environment whose
\* camera tilts by TiltStep: from the highest start tilt to the first tilt
\* at or below min_horizon, and from there to max_horizon.
ScanStepBound ==
    (MaxStartTilt + 1) + ((max_horizon - min_horizon) + 2 * TiltStep - 1) \div TiltStep

\* C13: in every environment that answers each Look step with a success
\* flag and an observation, the tilt scan ends after a bounded number of
\* Look steps, also when accepted steps report the tilt unchanged or absent.
C13_ScanStepsBounded == LooksSent <= ScanStepBound

\* The plan and the alignment turns have all been executed successfully and
\* the visibility of the target is about to be examined.
NavigationSucceeded ==
    /\ pc = "align"
    /\ idx > Len(turns)

\* C14: when the plan and the alignment turns succeeded and the latest
\* observation marks the target visible, the request has sent no LookUp and no
\* LookDown, sends nothing more, and returns success with an empty error
\* message.
C14_NoScanWhenVisible ==
    [][(NavigationSucceeded /\ _is_object_visible(last_event))
          => /\ LooksSent = 0
             /\ sent' = sent
             /\ pc' = "done"
             /\ result' = Returned(TRUE, "")]_vars

C14_Witness ==
    /\ pc = "done"
    /\ result = Returned(TRUE, "")
    /\ target_object_id # ""
    /\ last_event.visible
    /\ LooksSent = 0
    /\ Len(action_names) >= 2
    /\ Len(turns) >= 1
    /\ Len(MotionSent) = NavLength

\* C15: a request that returns success returns an observation that marks the
\* target visible, and an empty error message, whatever target identifier the
\* request was given.
C15_SuccessMeansVisible ==
    (result.kind = "returned" /\ result.success)
        => /\ _is_object_visible(last_event)
           /\ result.error = ""

\* The latest action sent is GetInteractablePoses: the latest observation
\* carries the candidate list.
PosesAnswered ==
    /\ Len(sent) = 2
    /\ sent[2].action = "GetInteractablePoses"

\* The request is over with no planner run and no motion primitive sent.
EndedUnplanned ==
    /\ pc = "done"
    /\ jps = PlannerIdle
    /\ astar = PlannerIdle
    /\ MotionSent = <<>>

\* The node that the planners were given as the goal for the pose.
GoalKeyOf(pose) ==
    nearest_key(build_node_lookup(env.positions), KeyOrder(env.positions), pose)

\* C16: an empty candidate list raises; a list whose first candidate has no
\* position is returned as an ordinary failure; in both cases no planner is
\* run and no motion primitive is sent. Otherwise the first candidate, and
\* no other, is the goal of the planners and the pose that is aligned to.
C16_PoseTaxonomy ==
    PosesAnswered =>
        IF Len(last_event.ret) = 0
        THEN /\ result = Raised("No interactable poses returned for target object")
             /\ EndedUnplanned
        ELSE IF last_event.ret[1].none
        THEN /\ result = Returned(FALSE, "GotoLocation missing valid target")
             /\ EndedUnplanned
        ELSE /\ target_position = last_event.ret[1]
             /\ goal_key = GoalKeyOf(last_event.ret[1])
             /\ jps # PlannerIdle

\* Two candidates at different nodes with different rotations: the plan leads
\* to the first.
C16_Witness ==
    /\ PosesAnswered
    /\ Len(last_event.ret) = 2
    /\ ~last_event.ret[1].none
    /\ ~last_event.ret[2].none
    /\ GoalKeyOf(last_event.ret[2]) # GoalKeyOf(last_event.ret[1])
    /\ last_event.ret[2].rotation # last_event.ret[1].rotation
    /\ goal_key = GoalKeyOf(last_event.ret[1])
    /\ pc = "execute"
    /\ Len(action_names) >= 1

\* An empty candidate list.
C16_WitnessEmpty ==
    /\ PosesAnswered
    /\ Len(last_event.ret) = 0
    /\ result.kind = "raised"

\* A first candidate without a position, followed by a usable one.
C16_WitnessNone ==
    /\ PosesAnswered
    /\ Len(last_event.ret) = 2
    /\ last_event.ret[1].none
    /\ ~last_event.ret[2].none
    /\ result = Returned(FALSE, "GotoLocation missing valid target")

----------------------------------------------------------------------------
(* The planners on the fully open grid of test_astar.py.                   *)

OpenGrid == NodeTable((0..(OpenW - 1)) \X (0..(OpenW - 1)))

\* A straight lane of OpenW cells with any of the cells of the row beside it.
LaneTables ==
    {NodeTable(((0..(OpenW - 1)) \X {0}) \cup side) :
        side \in SUBSET ((0..(OpenW - 1)) \X {1})}

InitStraight ==
    /\ nodes \in LaneTables \cup {OpenGrid}
    /\ start_key \in DOMAIN nodes
    /\ goal_key \in DOMAIN nodes
    /\ start_yaw \in Headings
    /\ adjacency = build_adjacency(nodes)
    /\ jps = JpsStart(nodes, start_key, start_yaw, goal_key)
    /\ astar = AstarStart(nodes, start_key, start_yaw, goal_key)
    /\ pc = "jps"
    /\ ExecIdle

SpecStraight == InitStraight /\ [][NextPlan]_vars

\* The key k cells ahead of the start along the start heading.
AheadKey(k) ==
    make_key(nodes[start_key].x + k * CARDINAL_DIRECTIONS(start_yaw)[1],
             nodes[start_key].z + k * CARDINAL_DIRECTIONS(start_yaw)[2])

\* The goal lies d cells straight ahead of the start and the d cells up to it
\* are walkable.
GoalStraightAhead(d) ==
    /\ goal_key = AheadKey(d)
    /\ \A k \in 1..d : AheadKey(k) \in DOMAIN nodes

MoveAheads(planner, d) ==
    /\ planner.status = "returned"
    /\ planner.actions = Repeat("MoveAhead", d)

\* C17: when the goal lies d >= 1 cells straight ahead of the start along the
\* start heading and the d cells up to the goal are walkable, astar_actions
\* and jps_actions both return exactly d MoveAhead and no rotation.
C17_StraightAheadPlan ==
    pc = "planned" =>
        \A d \in 1..OpenW :
            GoalStraightAhead(d) => MoveAheads(astar, d) /\ MoveAheads(jps, d)

\* On the open grid the straight-ahead plans are as C17 says.
OpenGridStraightAhead == nodes = OpenGrid => C17_StraightAheadPlan

\* astar_actions alone returns the d MoveAhead on every node table.
AstarStraightAhead ==
    pc = "planned" =>
        \A d \in 1..OpenW : GoalStraightAhead(d) => MoveAheads(astar, d)

----------------------------------------------------------------------------
(* The executor on an L-shaped corridor.                                   *)

\* The key k cells from key along heading yaw.
KeyAhead(key, yaw, k) ==
    <<key[1] + k * CARDINAL_DIRECTIONS(yaw)[1], key[2] + k * CARDINAL_DIRECTIONS(yaw)[2]>>

\* The node table is an L: a cells from the start along h1 to the corner,
\* then b cells along the perpendicular h2 to the goal.
LCorridor(a, b, h1, h2) ==
    /\ (h2 - h1) % 180 = 90
    /\ goal_key = KeyAhead(KeyAhead(start_key, h1, a), h2, b)
    /\ DOMAIN nodes = {KeyAhead(start_key, h1, k) : k \in 0..a}
                      \cup {KeyAhead(KeyAhead(start_key, h1, a), h2, k) : k \in 1..b}

\* The first segment's moves, the single quarter turn, the second segment's
\* moves.
LPlan(a, b, h1, h2) ==
    Repeat("MoveAhead", a)
    \o <<IF (h2 - h1) % 360 = 90 THEN "RotateRight" ELSE "RotateLeft">>
    \o Repeat("MoveAhead", b)

AllAccepted == \A i \in 1..Len(sent) : sent[i].ok

SegmentLengths == 1..(ExecCells - 1)

\* The request has been planned for a pose with a position.
Planned == start_key # None /\ ~target_position.none

\* The heading the pose asks for.
DesiredHeading == target_position.rotation[1]

\* C18: on an L-shaped corridor, with the agent at one end facing along the
\* first segment (the start heading), the goal at the other end, the desired
\* heading that of the second segment, every primitive accepted and the
\* target reported visible at tilt 0, the executor sends the first segment's
\* MoveAheads, one rotation primitive and the second segment's MoveAheads,
\* no LookUp and no LookDown, and returns success.
C18_LCorridorEndToEnd ==
    /\ [](Planned =>
            \A a, b \in SegmentLengths :
                LCorridor(a, b, start_yaw, DesiredHeading) =>
                    /\ action_names = LPlan(a, b, start_yaw, DesiredHeading)
                    /\ (pc = "done" /\ AllAccepted /\ LooksSent = 0)
                          => /\ ActionsOf(MotionSent) = LPlan(a, b, start_yaw, DesiredHeading)
                             /\ result = Returned(TRUE, ""))
    /\ [][(/\ NavigationSucceeded
           /\ last_event.horizon = 0
           /\ _is_object_visible(last_event))
             => \A a, b \in SegmentLengths :
                   LCorridor(a, b, start_yaw, DesiredHeading)
                       => /\ ActionsOf(MotionSent) = LPlan(a, b, start_yaw, DesiredHeading)
                          /\ LooksSent = 0
                          /\ sent' = sent
                          /\ result' = Returned(TRUE, "")]_vars

\* An L of one and two cells walked to the end by the A* plan, the target
\* visible at tilt 0.
C18_Witness ==
    /\ pc = "done"
    /\ Planned
    /\ \E a, b \in SegmentLengths :
          /\ a + b >= 3
          /\ LCorridor(a, b, start_yaw, DesiredHeading)
          /\ ActionsOf(MotionSent) = LPlan(a, b, start_yaw, DesiredHeading)
    /\ astar.status = "returned"
    /\ target_object_id # ""
    /\ last_event.visible
    /\ last_event.horizon = 0
    /\ LooksSent = 0
    /\ result = Returned(TRUE, "")

----------------------------------------------------------------------------
(* The heading snap and the two rotation decomposers on their own: the     *)
(* observed yaw is snapped as on line 73 of eval_llm_astar.py, the turns   *)
(* from the snapped heading to the heading of the pose are decomposed by   *)
(* _rotation_actions, and the alignment turns are computed by              *)
(* _turn_actions from the observed yaw and the rotation of the pose.       *)

YawInputs == (0 - MaxYaw)..(360 + MaxYaw)

InitYaw ==
    /\ pc = "yaw"
    /\ \E yaw \in YawInputs : last_event = [NoEvent EXCEPT !.meta = TRUE, !.yaw = yaw]
    /\ \E r \in Headings : target_position = [NonePose EXCEPT !.none = FALSE, !.rotation = <<r>>]
    /\ multi = FALSE
    /\ target_object_id = ""
    /\ env = [positions |-> <<>>, x |-> 0, z |-> 0, yaw |-> 0, horizon |-> 0,
              tilts |-> TRUE]
    /\ action_names = <<>>
    /\ idx = 0
    /\ turns = <<>>
    /\ current_horizon = 0
    /\ sent = <<>>
    /\ result = NoResult
    /\ nodes = <<>>
    /\ adjacency = <<>>
    /\ start_key = None
    /\ start_yaw = 0
    /\ goal_key = None
    /\ jps = PlannerIdle
    /\ astar = PlannerIdle

\* start_yaw = snap_yaw(agent_meta['rotation']['y'])
SnapYaw ==
    /\ pc = "yaw"
    /\ start_yaw' = normalize_yaw(last_event.yaw)
    /\ pc' = "snapped"
    /\ UNCHANGED <<nodes, adjacency, start_key, goal_key, jps, astar, xvars>>

\* _rotation_actions(current_yaw, target_yaw) on the snapped heading and the
\* heading of the pose.
DecomposeRotation ==
    /\ pc = "snapped"
    /\ action_names' = _rotation_actions(start_yaw, target_position.rotation[1])
    /\ idx' = Len(action_names') + 1
    /\ pc' = "execute"
    /\ UNCHANGED <<pvars, multi, target_object_id, env, last_event, target_position,
                   turns, current_horizon, sent, result>>

NextYaw == SnapYaw \/ DecomposeRotation \/ ComputeTurns

SpecYaw == InitYaw /\ [][NextYaw]_vars

\* The heading reached from heading yaw by the turns of list.
HeadingAfter(yaw, list) ==
    (yaw + 90 * CountOf(list, "RotateRight") - 90 * CountOf(list, "RotateLeft")) % 360

\* What C19 says of a turn list from heading current to heading target.
MinimalTurns(list, current, target) ==
    /\ Len(list) <= 2
    /\ \A i \in 1..Len(list) : list[i] \in {"RotateLeft", "RotateRight"}
    /\ ~(CountOf(list, "RotateLeft") > 0 /\ CountOf(list, "RotateRight") > 0)
    /\ HeadingAfter(current, list) = target
    /\ (target - current) % 360 = 0 => list = <<>>
    /\ (target - current) % 360 = 90 => list = <<"RotateRight">>
    /\ (target - current) % 360 = 180 => list = <<"RotateRight", "RotateRight">>
    /\ (target - current) % 360 = 270 => list = <<"RotateLeft">>

\* C19: for cardinal current and target headings, the turn lists of
\* _rotation_actions and of _turn_actions have at most two primitives, never
\* mix RotateLeft with RotateRight, and lead from the current heading to the
\* target; no turn for diff 0, one RotateRight for 90, two RotateRight for
\* 180, one RotateLeft for 270.
C19_RotationDecomposition ==
    (pc = "align" /\ last_event.yaw \in Headings)
        => /\ MinimalTurns(action_names, last_event.yaw, target_position.rotation[1])
           /\ MinimalTurns(turns, last_event.yaw, target_position.rotation[1])

\* A half turn decomposed by both functions.
C19_Witness ==
    /\ pc = "align"
    /\ last_event.yaw = 270
    /\ target_position.rotation = <<90>>
    /\ action_names = <<"RotateRight", "RotateRight">>
    /\ turns = <<"RotateRight", "RotateRight">>

\* The quarter turns k with 90k - 45 <= yaw < 90k + 45 for a yaw input.
QuarterTurns == (0 - (MaxYaw \div 90 + 1))..((360 + MaxYaw) \div 90 + 1)

\* C20: normalize_yaw maps every integer yaw, negative or above 360, to a
\* cardinal heading: a yaw in [90k - 45, 90k + 45) to 90k mod 360 (44 to 0,
\* 45, 46 and 134 to 90, 136 to 180, -1 to 0), and snapping the result again
\* leaves it unchanged.
C20_HeadingSnap ==
    pc # "yaw" =>
        /\ start_yaw \in Headings
        /\ \E k \in QuarterTurns :
              /\ 90 * k - 45 <= last_event.yaw
              /\ last_event.yaw < 90 * k + 45
              /\ start_yaw = (90 * k) % 360
        /\ last_event.yaw \in {44, -1} => start_yaw = 0
        /\ last_event.yaw \in {45, 46, 134} => start_yaw = 90
        /\ last_event.yaw = 136 => start_yaw = 180
        /\ normalize_yaw(start_yaw) = start_yaw

\* A negative yaw and a yaw above 360 on the lower edge of their intervals.
C20_Witness ==
    /\ pc = "snapped"
    /\ last_event.yaw = 360 + 45
    /\ start_yaw = 90

C20_WitnessNegative ==
    /\ pc = "snapped"
    /\ last_event.yaw = -46
    /\ start_yaw = 270

----------------------------------------------------------------------------
(* The grid indexer on its own: lines 68-72 of eval_llm_astar.py on a list *)
(* of reachable positions and an agent position that need not be on the   *)
(* grid.                                                                   *)

\* Grid positions, in thousandths.
IndexPoints == {Pos(x, z) : x \in {0, STEP_SIZE, 2 * STEP_SIZE}, z \in {0, STEP_SIZE}}

\* Agent positions: on the grid, near a node, and between nodes.
QueryPoints ==
    {Pos(x, z) : x \in {0, 120, STEP_SIZE, 380, 2 * STEP_SIZE}, z \in {0, 120, STEP_SIZE}}

\* The lists of n different grid positions.
RECURSIVE Arrangements(_)
Arrangements(n) ==
    IF n = 0 THEN {<<>>}
    ELSE UNION {{Append(a, p) : p \in IndexPoints \ SeqToSet(a)} :
                    a \in Arrangements(n - 1)}

PositionLists == UNION {Arrangements(n) : n \in 1..MaxPositions}

InitKey ==
    /\ pc = "index"
    /\ \E positions \in PositionLists :
          env = [positions |-> positions, x |-> 0, z |-> 0, yaw |-> 0, horizon |-> 0,
                 tilts |-> TRUE]
    /\ \E q \in QueryPoints :
          last_event = [NoEvent EXCEPT !.meta = TRUE, !.x = q.x, !.z = q.z]
    /\ multi = FALSE
    /\ target_object_id = ""
    /\ target_position = NonePose
    /\ action_names = <<>>
    /\ idx = 0
    /\ turns = <<>>
    /\ current_horizon = 0
    /\ sent = <<>>
    /\ result = NoResult
    /\ nodes = <<>>
    /\ adjacency = <<>>
    /\ start_key = None
    /\ start_yaw = 0
    /\ goal_key = None
    /\ jps = PlannerIdle
    /\ astar = PlannerIdle

\* nodes = build_node_lookup(reachable_positions)
BuildNodeLookup ==
    /\ pc = "index"
    /\ nodes' = build_node_lookup(env.positions)
    /\ pc' = "indexed"
    /\ UNCHANGED <<adjacency, start_key, start_yaw, goal_key, jps, astar, xvars>>

\* start_key = nearest_key(nodes, agent_position)
NearestKey ==
    /\ pc = "indexed"
    /\ start_key' = nearest_key(nodes, KeyOrder(env.positions), last_event)
    /\ pc' = "located"
    /\ UNCHANGED <<nodes, adjacency, start_yaw, goal_key, jps, astar, xvars>>

\* adjacency = build_adjacency(nodes)
BuildAdjacency ==
    /\ pc = "located"
    /\ adjacency' = build_adjacency(nodes)
    /\ pc' = "linked"
    /\ UNCHANGED <<nodes, start_key, start_yaw, goal_key, jps, astar, xvars>>

NextKey == BuildNodeLookup \/ NearestKey \/ BuildAdjacency

SpecKey == InitKey /\ [][NextKey]_vars

\* The squared horizontal distance between the node of key k and point q.
SquaredDistance(k, q) ==
    (nodes[k].x - q.x) * (nodes[k].x - q.x) + (nodes[k].z - q.z) * (nodes[k].z - q.z)

\* The key of the agent position is a key of the table.
QueryKeyPresent == make_key(last_event.x, last_event.z) \in DOMAIN nodes

\* C21: nearest_key returns a key of the table: the point's own key when the
\* table has it, else a key whose node is at the least squared horizontal
\* distance from the point.
C21_NearestKey ==
    pc \in {"located", "linked"} =>
        /\ start_key \in DOMAIN nodes
        /\ QueryKeyPresent => start_key = make_key(last_event.x, last_event.z)
        /\ ~QueryKeyPresent =>
              \A k \in DOMAIN nodes :
                  SquaredDistance(start_key, last_event) <= SquaredDistance(k, last_event)

\* An agent off the grid whose nearest node is the last of three.
C21_Witness ==
    /\ pc = "located"
    /\ ~QueryKeyPresent
    /\ Len(env.positions) = 3
    /\ start_key = make_key(env.positions[3].x, env.positions[3].z)
    /\ \A k \in DOMAIN nodes \ {start_key} :
          SquaredDistance(start_key, last_event) < SquaredDistance(k, last_event)

\* The agent is on a node of the table.
C21_WitnessExact ==
    /\ pc = "located"
    /\ QueryKeyPresent
    /\ Len(env.positions) = 3
    /\ start_key = make_key(last_event.x, last_event.z)

\* The orderings of the position list.
Reorderings ==
    {a \in Arrangements(Len(env.positions)) : SeqToSet(a) = SeqToSet(env.positions)}

\* The keys whose nodes are at the least squared distance from the agent.
NearestKeys ==
    {k \in DOMAIN nodes :
        \A j \in DOMAIN nodes :
            SquaredDistance(k, last_event) <= SquaredDistance(j, last_event)}

\* C22: when the agent's key is not in the table and two or more nodes are at
\* the same least distance, nearest_key returns the same key for every
\* ordering of the positions given to build_node_lookup.
C22_TieBreakOrderFree ==
    (pc = "located" /\ ~QueryKeyPresent /\ Cardinality(NearestKeys) >= 2)
        => \A a \in Reorderings :
              nearest_key(build_node_lookup(a), KeyOrder(a), last_event) = start_key

----------------------------------------------------------------------------
(* The adjacency map.                                                      *)

\* Key b is one grid step from key a along one axis.
CardinalStepApart(a, b) ==
    \/ a[1] = b[1] /\ Abs(a[2] - b[2]) = STEP_SIZE
    \/ a[2] = b[2] /\ Abs(a[1] - b[1]) = STEP_SIZE

\* C23: build_adjacency returns a map on exactly the keys of the node table;
\* every neighbour list has at most four entries, all different, none the
\* key itself, each a key of the table one cardinal grid step away.
C23_AdjacencyWellFormed ==
    /\ DOMAIN adjacency = DOMAIN nodes
    /\ \A key \in DOMAIN adjacency :
          /\ Len(adjacency[key]) <= 4
          /\ Cardinality(SeqToSet(adjacency[key])) = Len(adjacency[key])
          /\ \A i \in 1..Len(adjacency[key]) :
                /\ adjacency[key][i] # key
                /\ adjacency[key][i] \in DOMAIN nodes
                /\ CardinalStepApart(key, adjacency[key][i])

\* A node with four neighbours and a node with one.
C23_Witness ==
    /\ pc = "planned"
    /\ \E key \in DOMAIN adjacency : Len(adjacency[key]) = 4
    /\ \E key \in DOMAIN adjacency : Len(adjacency[key]) = 1
    /\ Cardinality(DOMAIN nodes) = 5

\* A node without a neighbour beside a linked pair.
C23_WitnessIsolated ==
    /\ \E key \in DOMAIN adjacency : Len(adjacency[key]) = 0
    /\ \E key \in DOMAIN adjacency : Len(adjacency[key]) = 1

----------------------------------------------------------------------------
(* The planners on a lane with a gap: a row of OpenW cells, at most one of *)
(* them missing, with at most two cells of the row beside it; the agent    *)
(* starts at an end of the lane.                                           *)

Lane == (0..(OpenW - 1)) \X {0}

LaneGaps == {{}} \cup {{c} : c \in Lane}

LaneSides == {side \in SUBSET ((0..(OpenW - 1)) \X {1}) : Cardinality(side) <= 2}

GapTables == {NodeTable((Lane \ gap) \cup side) : gap \in LaneGaps, side \in LaneSides}

LaneEnds == {<<0, 0>>, <<(OpenW - 1) * STEP_SIZE, 0>>}

InitGap ==
    /\ nodes \in GapTables
    /\ start_key \in DOMAIN nodes \cap LaneEnds
    /\ goal_key \in DOMAIN nodes
    /\ start_yaw \in Headings
    /\ adjacency = build_adjacency(nodes)
    /\ jps = JpsStart(nodes, start_key, start_yaw, goal_key)
    /\ astar = AstarStart(nodes, start_key, start_yaw, goal_key)
    /\ pc = "jps"
    /\ ExecIdle

SpecGap == InitGap /\ [][NextPlan]_vars

\* The entry the next iteration of the JPS loop pops.
JpsPopped == JpsHeapMin(jps.heap)

\* The next iteration of the JPS loop calls _jump.
JpsJumping ==
    /\ pc = "jps"
    /\ jps.status = "running"
    /\ jps.heap # {}
    /\ JpsPopped.pos \notin jps.closed
    /\ JpsPopped.pos # goal_key

\* The directions the next iteration passes to _jump.
JpsDirections ==
    _pruned_directions(nodes, JpsPopped.pos,
                       IF JpsPopped.pos \in DOMAIN jps.parents
                       THEN jps.parents[JpsPopped.pos] ELSE None)

UnitCardinal(d) == Abs(d[1]) + Abs(d[2]) = 1

\* The keys strictly between keys a and b of one row or column.
KeysBetween(a, b) ==
    {<<x, z>> : x \in {a[1] + i * STEP_SIZE * Sign(b[1] - a[1]) :
                          i \in 1..(Abs(b[1] - a[1]) \div STEP_SIZE - 1)},
                z \in {a[2]}}
    \cup {<<x, z>> : x \in {a[1]},
                     z \in {a[2] + i * STEP_SIZE * Sign(b[2] - a[2]) :
                               i \in 1..(Abs(b[2] - a[2]) \div STEP_SIZE - 1)}}

\* C24: every direction jps_actions passes to _jump is a unit cardinal
\* vector, and every cell between a node and a jump point found from it is
\* walkable and is not the goal.
C24_JumpStride ==
    /\ JpsJumping => \A i \in 1..Len(JpsDirections) : UnitCardinal(JpsDirections[i])
    /\ \A key \in DOMAIN jps.parents :
          \A cell \in KeysBetween(jps.parents[key], key) :
              cell \in DOMAIN nodes /\ cell # goal_key

----------------------------------------------------------------------------
(* JPS after the start node.                                               *)

\* The node the next iteration of the JPS loop expands has a parent.
JpsBranching == JpsJumping /\ JpsPopped.pos \in DOMAIN jps.parents

\* Direction d is orthogonal to the travel from the parent into the popped
\* node.
OrthogonalBranch(d) ==
    LET parent == jps.parents[JpsPopped.pos]
    IN d[1] * (JpsPopped.pos[1] - parent[1]) + d[2] * (JpsPopped.pos[2] - parent[2]) = 0

Collinear(path, start) ==
    \/ \A i \in 1..Len(path) : path[i][1] = start[1]
    \/ \A i \in 1..Len(path) : path[i][2] = start[2]

\* At most two rotations, then MoveAhead only.
TurnsThenAhead(plan) ==
    \E k \in 0..2 :
        /\ k <= Len(plan)
        /\ \A i \in 1..k : plan[i] \in {"RotateLeft", "RotateRight"}
        /\ \A i \in (k + 1)..Len(plan) : plan[i] = "MoveAhead"

OffAxisGoal == goal_key[1] # start_key[1] /\ goal_key[2] # start_key[2]

\* C25: JPS never turns after the start: _jump returns no successor along
\* an orthogonal branch direction that _pruned_directions adds at a node
\* with a parent, the reconstructed path is collinear with the start, a
\* returned plan is at most two rotations followed by MoveAhead only, and
\* jps_actions raises no-path for a goal outside the start's row and column.
C25_JpsNeverTurns ==
    /\ JpsBranching =>
          \A i \in 1..Len(JpsDirections) :
              OrthogonalBranch(JpsDirections[i])
                  => _jump(nodes, JpsPopped.pos, JpsDirections[i], goal_key) = None
    /\ Collinear(jps.path, start_key)
    /\ jps.status = "returned" => TurnsThenAhead(jps.actions)
    /\ jps.status # "running" /\ OffAxisGoal => jps.status = "raised"

\* _pruned_directions has added an orthogonal branch at a node with a parent.
C25_Witness ==
    /\ JpsBranching
    /\ \E i \in 1..Len(JpsDirections) : OrthogonalBranch(JpsDirections[i])

\* jps_actions has raised for a goal that is connected to the start but lies
\* outside its row and column.
C25_WitnessRaised ==
    /\ jps.status = "raised"
    /\ OffAxisGoal
    /\ Connected(nodes, start_key, goal_key)

\* jps_actions has returned a plan that rotates and then moves through a
\* jump point.
C25_WitnessReturned ==
    /\ jps.status = "returned"
    /\ Len(jps.path) >= 3
    /\ jps.actions[1] \in {"RotateLeft", "RotateRight"}

----------------------------------------------------------------------------
(* The agent channel of the multi-agent executor.                          *)

\* C26: in the multi-agent executor every motion primitive of a navigation
\* request (plan primitives, alignment turns, LookUp, LookDown) is sent
\* with agentId = primary_agent_index.
C26_PrimaryAgentTagged ==
    multi => \A i \in 1..Len(sent) :
                 sent[i].action \in MotionPrimitives
                     => sent[i].agentId = primary_agent_index

----------------------------------------------------------------------------
(* The alignment turns on their own: lines 93-99 of eval_llm_astar.py on an *)
(* observed yaw and a pose whose rotation is any yaw, cardinal or not, or   *)
(* is missing.                                                              *)

DesiredStep == 15

DesiredYaws == {DesiredStep * k : k \in (0 - MaxDesired)..(360 \div DesiredStep + MaxDesired)}

DesiredRotations == {None} \cup {<<r>> : r \in DesiredYaws}

InitTurn ==
    /\ pc = "execute"
    /\ \E yaw \in YawInputs : last_event = [NoEvent EXCEPT !.meta = TRUE, !.yaw = yaw]
    /\ \E r \in DesiredRotations :
          target_position = [NonePose EXCEPT !.none = FALSE, !.rotation = r]
    /\ multi \in BOOLEAN
    /\ target_object_id = ""
    /\ env = [positions |-> <<>>, x |-> 0, z |-> 0, yaw |-> 0, horizon |-> 0,
              tilts |-> TRUE]
    /\ action_names = <<>>
    /\ idx = 1
    /\ turns = <<>>
    /\ current_horizon = 0
    /\ sent = <<>>
    /\ result = NoResult
    /\ nodes = <<>>
    /\ adjacency = <<>>
    /\ start_key = None
    /\ start_yaw = 0
    /\ goal_key = None
    /\ jps = PlannerIdle
    /\ astar = PlannerIdle

SpecTurn == InitTurn /\ [][ComputeTurns]_vars

\* The difference _turn_actions decomposes.
SnappedDiff ==
    (normalize_yaw(target_position.rotation[1]) - normalize_yaw(last_event.yaw)) % 360

\* C27: the alignment turns _turn_actions computes from the observed yaw and
\* the desired yaw of the pose are those of _rotation_actions on the two
\* snapped yaws; the snapped difference is 0, 90, 180 or 270, so neither
\* rounding branch is taken; a pose without a desired yaw gets no turn.
C27_SharedDecomposer ==
    pc = "align" =>
        IF target_position.rotation = None
        THEN turns = <<>>
        ELSE /\ turns = _rotation_actions(normalize_yaw(last_event.yaw),
                                          normalize_yaw(target_position.rotation[1]))
             /\ SnappedDiff \in {0, 90, 180, 270}

\* Turns computed from two non-cardinal yaws whose raw difference would take
\* a rounding branch.
C27_Witness ==
    /\ pc = "align"
    /\ last_event.yaw = 100
    /\ target_position.rotation = <<DesiredStep * 17>>
    /\ turns = <<"RotateRight", "RotateRight">>

\* A pose without a desired yaw.
C27_WitnessMissing ==
    /\ pc = "align"
    /\ target_position.rotation = None
    /\ last_event.yaw = 100
    /\ turns = <<>>

----------------------------------------------------------------------------
(* The order in which astar_actions pops its open set.                     *)

\* The entry the next iteration of the A* loop pops.
AstarPopped == AstarHeapMin(astar.heap)

AstarPopping == pc = "astar" /\ astar.status = "running" /\ astar.heap # {}

\* Two entries with the same priority f = g + h.
EqualF(e1, e2) == ~FLess(e1, e2) /\ ~FLess(e2, e1)

\* C28: among the open-set entries with equal f, astar_actions pops the one
\* inserted earliest, whatever their g values.
C28_EarliestAmongEqualF ==
    AstarPopping =>
        \A o \in astar.heap : EqualF(o, AstarPopped) => AstarPopped.n <= o.n

----------------------------------------------------------------------------
(* The closed set of jps_actions.                                          *)

\* The next iteration of the JPS loop pops an entry whose position is
\* already closed.
JpsPoppingClosed ==
    /\ pc = "jps"
    /\ jps.status = "running"
    /\ jps.heap # {}
    /\ JpsPopped.pos \in jps.closed

\* The step of the JPS loop from the current state left everything but the
\* heap as it was.
JpsSkipped == jps' = [jps EXCEPT !.heap = jps.heap \ {JpsPopped}]

\* The step of the JPS loop expanded the popped position.
JpsExpanded ==
    /\ jps.heap # {}
    /\ JpsPopped.pos \notin jps.closed
    /\ jps'.closed = jps.closed \cup {JpsPopped.pos}
    /\ jps'.expanded = jps.expanded + 1

\* C29: in one run of jps_actions the closed set only grows, a position is
\* expanded only when it is not in the closed set and is in it from then
\* on (so at most once), and a popped entry whose position is already
\* closed is dropped without any successor being generated.
C29_LazyDeletion ==
    [][/\ jps.closed \subseteq jps'.closed
       /\ jps'.expanded # jps.expanded => JpsExpanded
       /\ jps'.closed # jps.closed => JpsExpanded
       /\ jps'.counter # jps.counter => JpsExpanded
       /\ (JpsPoppingClosed /\ jps' # jps) => JpsSkipped]_vars

\* Every expansion so far closed a different position.
C29_ExpandedOnce == jps.expanded = Cardinality(jps.closed)

\* A run that has expanded the start and two jump points.
C29_Witness ==
    /\ jps.status = "running"
    /\ jps.expanded = 3
    /\ Cardinality(jps.closed) = 3
    /\ start_key \in jps.closed

----------------------------------------------------------------------------
(* The defensive check of _path_to_actions on the paths of jps_actions.    *)

\* Waypoints a and b differ along exactly one axis.
OneAxisApart(a, b) == (a[1] # b[1]) # (a[2] # b[2])

\* C30: consecutive waypoints of the path jps_actions reconstructs differ
\* along exactly one axis, and jps_actions never raises 'Diagonal movement
\* is not supported'.
C30_NoDiagonalFromJps ==
    /\ jps.status # "value_error"
    /\ \A i \in 1..(Len(jps.path) - 1) : OneAxisApart(jps.path[i], jps.path[i + 1])

\* A reconstructed path of two segments that _path_to_actions accepted.
C30_Witness ==
    /\ jps.status = "returned"
    /\ Len(jps.path) = 3
    /\ jps.path[1][1] = jps.path[3][1]
    /\ Len(jps.actions) >= 2

----------------------------------------------------------------------------
(* The tables of one request through indexing and both planners: the node  *)
(* table is built from the reply, the start key is located, the neighbour  *)
(* lists are built, and jps_actions and astar_actions run to their return  *)
(* or raise on a goal key of the table.                                    *)

\* target_key = nearest_key(nodes, target_position): any key of the table;
\* the planners are handed the tables.
StartPlanners ==
    /\ pc = "linked"
    /\ goal_key' \in DOMAIN nodes
    /\ jps' = JpsStart(nodes, start_key, start_yaw, goal_key')
    /\ astar' = AstarStart(nodes, start_key, start_yaw, goal_key')
    /\ pc' = "jps"
    /\ UNCHANGED <<nodes, adjacency, start_key, start_yaw, xvars>>

NextTables == NextKey \/ StartPlanners \/ NextPlan

SpecTables == InitKey /\ [][NextTables]_vars

\* C31: nearest_key, build_adjacency, jps_actions and astar_actions leave
\* the caller's node table as it was, and the planners leave the neighbour
\* lists and the keys they were called with as they were, whether they
\* return or raise.
C31_PlannerPurity ==
    [][/\ pc # "index" => nodes' = nodes
       /\ pc \in {"jps", "astar"} =>
             /\ adjacency' = adjacency
             /\ <<start_key, start_yaw, goal_key>>' = <<start_key, start_yaw, goal_key>>]_vars

\* jps_actions has raised and astar_actions has returned a plan on the
\* tables built from the reply.
C31_Witness ==
    /\ pc = "planned"
    /\ jps.status = "raised"
    /\ astar.status = "returned"
    /\ astar.actions # <<>>
    /\ nodes = build_node_lookup(env.positions)
    /\ adjacency = build_adjacency(nodes)

\* Both planners have raised.
C31_WitnessRaised ==
    /\ pc = "planned"
    /\ jps.status = "raised"
    /\ astar.status = "raised"
    /\ nodes = build_node_lookup(env.positions)
    /\ adjacency = build_adjacency(nodes)

----------------------------------------------------------------------------
(* A sequence of navigation requests on a lane whose reachable set changes *)
(* between requests: a row of OpenW cells with one cell beside its second  *)
(* cell, with or without the second cell itself.                           *)

LanePositions == [i \in 1..OpenW |-> Pos((i - 1) * STEP_SIZE, 0)] \o <<Pos(STEP_SIZE, STEP_SIZE)>>

\* The reply without the second cell of the lane.
GapPositions ==
    LET Kept(p) == ~(p.x = STEP_SIZE /\ p.z = 0)
    IN SelectSeq(LanePositions, Kept)

\* The agent stands on an end of the lane with a level camera.
RequestEnvironments ==
    {[positions |-> ps, x |-> x, z |-> 0, yaw |-> y, horizon |-> 0, tilts |-> TRUE] :
        ps \in {LanePositions, GapPositions}, x \in {0, (OpenW - 1) * STEP_SIZE},
        y \in Headings}

InitRequests ==
    /\ pc = "request"
    /\ multi = FALSE
    /\ target_object_id = "Mug|1"
    /\ env \in RequestEnvironments
    /\ last_event = NoEvent
    /\ target_position = NonePose
    /\ action_names = <<>>
    /\ idx = 0
    /\ turns = <<>>
    /\ current_horizon = 0
    /\ sent = <<>>
    /\ result = NoResult
    /\ nodes = <<>>
    /\ adjacency = <<>>
    /\ start_key = None
    /\ start_yaw = 0
    /\ goal_key = None
    /\ jps = PlannerIdle
    /\ astar = PlannerIdle

\* The next request arrives after the previous one has ended; in between
\* the reachable set and the agent's pose may have changed.  The locals of
\* the previous call are gone; the node table it built is left in place,
\* so that a request that did not build its own would plan over it.
NewRequest ==
    /\ pc = "done"
    /\ pc' = "request"
    /\ env' \in RequestEnvironments
    /\ last_event' = NoEvent
    /\ target_position' = NonePose
    /\ action_names' = <<>>
    /\ idx' = 0
    /\ turns' = <<>>
    /\ current_horizon' = 0
    /\ sent' = <<>>
    /\ result' = NoResult
    /\ adjacency' = <<>>
    /\ start_key' = None
    /\ start_yaw' = 0
    /\ goal_key' = None
    /\ jps' = PlannerIdle
    /\ astar' = PlannerIdle
    /\ UNCHANGED <<nodes, multi, target_object_id>>

NextRequests == Next \/ NewRequest

SpecRequests == InitRequests /\ [][NextRequests]_vars

\* This request has planned.
RequestPlanned == target_position # NonePose

\* C32: GetReachablePositions is the first environment action of every
\* request and is sent once; the node table a request plans on is the
\* table of its own reply, whatever the previous request left; and the
\* plan runs from the start key to the goal key over positions of that
\* reply only.
C32_FreshSnapshot ==
    /\ sent # <<>> => sent[1].action = "GetReachablePositions"
    /\ \A i \in 2..Len(sent) : sent[i].action # "GetReachablePositions"
    /\ RequestPlanned =>
          /\ nodes = build_node_lookup(env.positions)
          /\ start_key \in DOMAIN nodes
          /\ goal_key \in DOMAIN nodes
          /\ Replay(action_names, 1, start_key, start_yaw, "walkable") # None

\* The part of C32 about the table alone: it is rebuilt from the reply of
\* the request, over a table left by a request with another reachable set.
C32_TableFromOwnReply ==
    /\ sent # <<>> => sent[1].action = "GetReachablePositions"
    /\ \A i \in 2..Len(sent) : sent[i].action # "GetReachablePositions"
    /\ RequestPlanned =>
          /\ nodes = build_node_lookup(env.positions)
          /\ start_key \in DOMAIN nodes
          /\ goal_key \in DOMAIN nodes

\* A request is about to plan while the table of a request with another
\* reachable set is still in place.
C32_StaleTableInPlace ==
    /\ pc = "poses"
    /\ nodes # <<>>
    /\ nodes # build_node_lookup(env.positions)

----------------------------------------------------------------------------
(* A request whose target pose is on the agent's own cell.                 *)

AlreadyAtGoal == RequestPlanned /\ start_key = goal_key

\* What astar_actions does on the tables of the request.
AstarAtGoal ==
    astar_actions(nodes, build_adjacency(nodes), start_key, start_yaw, goal_key)

\* C33: when the start key equals the goal key, jps_actions and
\* astar_actions return the empty plan without expanding a state, for
\* every start heading; the executor takes the empty plan, sends no
\* MoveAhead and no plan rotation, and goes on to the alignment turns and
\* the visibility check.
C33_AlreadyAtGoal ==
    AlreadyAtGoal =>
        /\ jps.status = "returned" /\ jps.actions = <<>> /\ jps.expanded = 0
        /\ AstarAtGoal.status = "returned"
        /\ AstarAtGoal.actions = <<>>
        /\ AstarAtGoal.expanded = 0
        /\ action_names = <<>>
        /\ pc # "done" => pc \in {"execute", "align", "look_up", "look_down"}
        /\ pc = "execute" => sent[Len(sent)].action = "GetInteractablePoses"
        /\ \A i \in 1..Len(sent) : sent[i].action # "MoveAhead"
        /\ \A i \in 3..Len(sent) :
              \/ i - 2 <= Len(turns) /\ sent[i].action = turns[i - 2]
              \/ i - 2 > Len(turns) /\ sent[i].action \in LookSteps

\* A request on the agent's own cell that turned twice, checked visibility
\* and succeeded.
C33_Witness ==
    /\ AlreadyAtGoal
    /\ pc = "done"
    /\ result = Returned(TRUE, "")
    /\ Len(turns) = 2
    /\ Len(sent) = 4
    /\ start_yaw = 180

----------------------------------------------------------------------------
(* The graph of build_adjacency.                                           *)

Neighbours(key) == SeqToSet(adjacency[key])

\* C34: the graph build_adjacency returns is undirected: b is in the
\* neighbour list of a exactly when a is in the neighbour list of b (every
\* entry of a list is a key whose own list holds the key of that list).
C34_AdjacencySymmetric ==
    \A a \in DOMAIN adjacency :
        \A i \in 1..Len(adjacency[a]) :
            /\ adjacency[a][i] \in DOMAIN adjacency
            /\ a \in Neighbours(adjacency[a][i])

\* A table of six nodes with seven links, planned on.
C34_Witness ==
    /\ pc = "planned"
    /\ Cardinality(DOMAIN adjacency) = 6
    /\ Cardinality({<<a, b>> \in (DOMAIN adjacency) \X (DOMAIN adjacency) :
                        b \in Neighbours(a)}) = 14

----------------------------------------------------------------------------
(* The parent maps of the two planners.                                    *)

RECURSIVE ReachesRoot(_, _, _, _)
\* Following the parent map from state s reaches root without coming back
\* to a state of seen.
ReachesRoot(parent, root, s, seen) ==
    IF s = root THEN TRUE
    ELSE IF s \in seen \/ s \notin DOMAIN parent THEN FALSE
    ELSE ReachesRoot(parent, root, parent[s], seen \cup {s})

\* The parent map is a tree rooted at root over the recorded states.
TreeRootedAt(parent, root, recorded) ==
    /\ root \notin DOMAIN parent
    /\ \A s \in recorded \cup DOMAIN parent : ReachesRoot(parent, root, s, {})

\* came_from without the actions.
AstarParents == [s \in DOMAIN astar.came_from |-> astar.came_from[s].prev]

\* No recorded g-score is dropped or raised by the step.
GScoresNeverIncrease(before, after) ==
    \A s \in DOMAIN before : s \in DOMAIN after /\ after[s] <= before[s]

\* C35: at every point of jps_actions and of astar_actions the parent map
\* leads from every recorded state to the start without revisiting a
\* state, the start has no parent, and no recorded g-score ever increases.
C35_ParentTree ==
    /\ [](/\ TreeRootedAt(jps.parents, start_key, DOMAIN jps.g_score)
          /\ TreeRootedAt(AstarParents, <<start_key, start_yaw>>, DOMAIN astar.g_score))
    /\ [][/\ GScoresNeverIncrease(jps.g_score, jps'.g_score)
           /\ GScoresNeverIncrease(astar.g_score, astar'.g_score)]_vars

\* Both planners have run: jps_actions has recorded two parents and
\* astar_actions ten, and has returned a plan of five primitives.
C35_Witness ==
    /\ pc = "planned"
    /\ astar.status = "returned"
    /\ Len(astar.actions) >= 5
    /\ Cardinality(DOMAIN astar.came_from) >= 10
    /\ Cardinality(DOMAIN jps.parents) >= 2

====
